---- MODULE Spec2Model ----
(***************************************************************************)
(* A model of the StockRead back end: the GlobalAnalyst scheduler and its  *)
(* batch loop (services/global_analyst.py), the Insight Generator          *)
(* (services/ai_service.py) and the Job Consumers                          *)
(* (services/response_bot_service.py).                                     *)
(*                                                                         *)
(* The module holds several components.  A behaviour exercises one of     *)
(* them: Init picks the component, the others stay "off".                  *)
(***************************************************************************)
EXTENDS Integers, Sequences, FiniteSets, TLC

NULL == "null"
NoDate == -1         \* last_run_date = None
NoTime == -1         \* no next_open computed yet

(***************************************************************************)
(* Time.  A time is a count of half minutes since Monday 00:00 ET, read   *)
(* as a region of the real time line: an even value 2*m is the instant    *)
(* "minute m, zero seconds", an odd value 2*m+1 is any instant strictly   *)
(* between minute m and minute m+1.  Every value the code compares `now`  *)
(* with is a whole minute, so the comparisons of the code are decided     *)
(* exactly by the comparisons of these integers.                           *)
(***************************************************************************)
MaxDay == 7          \* the scheduler is followed until the end of this day
MaxJitter == 1       \* whole minutes a sleep may overshoot
MaxRunDur == 2       \* whole minutes an analysis run may take

Mins(k) == 2 * k
DayLen == Mins(1440)

DayOf(t) == t \div DayLen
Weekday(t) == DayOf(t) % 7          \* datetime.weekday(): Monday = 0
TimeOfDay(t) == t % DayLen
HourOf(t) == TimeOfDay(t) \div Mins(60)

\* now_et.replace(hour=h, minute=m, second=0, microsecond=0)
ReplaceHM(t, h, m) == DayOf(t) * DayLen + Mins(60 * h + m)

Max2(a, b) == IF a >= b THEN a ELSE b
Min2(a, b) == IF a <= b THEN a ELSE b
Abs(a) == IF a >= 0 THEN a ELSE 0 - a

\* The times at which a time.sleep(d) that starts at t can return: not before
\* t + d, and strictly after it unless t + d is itself inside a minute.
WakeTimes(t, d) ==
    { x \in (t + d) .. (t + d + Mins(MaxJitter)) : x > t + d \/ (t + d) % 2 = 1 }

(***************************************************************************)
(* GlobalAnalyst.is_market_open                                            *)
(***************************************************************************)
is_market_open_strict_close(now_et) ==
    IF Weekday(now_et) >= 5
    THEN FALSE
    ELSE ReplaceHM(now_et, 9, 30) <= now_et /\ now_et < ReplaceHM(now_et, 16, 0)

is_market_open(now_et) ==
    IF Weekday(now_et) >= 5
    THEN FALSE
    ELSE ReplaceHM(now_et, 9, 30) <= now_et /\ now_et <= ReplaceHM(now_et, 16, 0)

(***************************************************************************)
(* GlobalAnalyst.run_continuous                                            *)
(***************************************************************************)
target_times == << <<10, 0>>, <<12, 0>>, <<14, 30>> >>
Targets == 1 .. Len(target_times)

TargetAt(t, k) == ReplaceHM(t, target_times[k][1], target_times[k][2])

\* for hour, minute in target_times: if target > now_et: ...; break
FutureTargets(t) == { k \in Targets : TargetAt(t, k) > t }
NextTarget(t) ==
    IF FutureTargets(t) = {} THEN 0
    ELSE CHOOSE k \in FutureTargets(t) : \A j \in FutureTargets(t) : k <= j

\* next_run: the first target after now, else 09:30 of the next day
NextRun(t) ==
    IF NextTarget(t) = 0 THEN ReplaceHM(t, 9, 30) + DayLen
    ELSE TargetAt(t, NextTarget(t))

\* next_hour: the hour of that target (0 stands for None: no target is at hour 0)
NextHour(t) ==
    IF NextTarget(t) = 0 THEN 0 ELSE target_times[NextTarget(t)][1]

\* next_open as computed when the market is found closed
NextOpen(t) ==
    LET base == ReplaceHM(t, 9, 30)
        days_to_monday == IF (7 - Weekday(t)) % 7 = 0 THEN 1 ELSE (7 - Weekday(t)) % 7
    IN  IF HourOf(t) >= 16 \/ Weekday(t) >= 5
        THEN IF Weekday(t) >= 5 THEN base + days_to_monday * DayLen
             ELSE base + DayLen
        ELSE base

ShouldRun_every_wake(t, lrd) == TRUE

\* abs(time_diff) < 300 and last_run_date != current_date
ShouldRun(t, lrd) == Abs(t - NextRun(t)) < Mins(5) /\ lrd # DayOf(t)

VARIABLES
    comp,            \* the component this behaviour exercises
    now,             \* wall clock, US/Eastern
    spc,             \* position of run_continuous
    now_et,          \* the loop's reading of the clock in this iteration
    last_run_date,   \* NoDate or a day number
    next_open,       \* last next_open computed (NoTime before the first)
    runs,            \* history: analyze_all_tickers calls per target on runs_day
    seen,            \* history: targets whose window the loop woke up in on runs_day
    runs_day,        \* the date runs and seen are about
    refreshed,       \* history: refresh_ticker_list was called on runs_day
    \* analyze_all_tickers
    bpc,             \* position of analyze_all_tickers
    ticker_list,     \* its ticker_list argument
    batch_size,      \* its batch_size argument
    bat_i,           \* the loop index i
    batches,         \* history: the batches handed to analyze_batch, in order
    batch_result,    \* what the last analyze_batch call did and returned
    analyst_ai,      \* GlobalAnalyst.ai_available
    effects,         \* history: kinds of external operation performed by the run
    chunk_failed,    \* history: some chunk's AI request raised or its parse failed
    sleeps,          \* history: number of time.sleep(20) calls
    slept_seconds,   \* history: seconds slept between chunks
    macro_fetches,   \* history: number of get_macro_context calls
    \* AIService.analyze_signal
    apc,             \* position of analyze_signal
    attempt,         \* the loop variable attempt
    llm_calls,       \* history: generate_content calls of this analyze_signal call
    raw,             \* raw_text of this attempt (NoText when the call failed)
    parsed,          \* parsed_result of this attempt
    validated,       \* validated_result of this attempt
    result,          \* what analyze_signal returned (None until it returns)
    worker,          \* the executor's worker thread: "idle", or "running" generate_content
    \* two calls of AIService._calculate_risk_from_score
    rpc,             \* how many of the two calls have returned
    score_a, score_b,
    risk_a, risk_b,
    \* one call of AIService._parse_llm_response
    ptext,           \* its argument raw_text
    presult,         \* what it returned (Pending before it returns)
    \* one call of AIService._validate_analysis_result
    vdict,           \* its argument parsed_result
    vresult,         \* what it returned (Pending before it returns)
    sv_in,           \* analyze_batch's save loop: parsed results, batch_data, failing upserts
    sv_out,          \* what the loop upserted and analyze_batch returned (Pending before)
    bk_in,           \* an except clause entered: its site, the error count, two errors
    bk_out,          \* the delay the clause computes for each of the two (Pending before)
    \* ResponseBotService and the tables it writes
    bmode,           \* "queue" when redis_available, else "poll"
    redis_ok,        \* history: the service's last Redis operation succeeded
    cpc,             \* position of the running consumer loop
    ai_available,    \* ResponseBotService.ai_available
    posts,           \* table posts: post id -> row
    insights,        \* table ticker_insights: ticker -> row
    reputation,      \* table profiles: user -> reputation_score
    awarded,         \* history: post id -> reputation awards written for it
    queue,           \* the Redis list analysis_jobs
    todo,            \* the polling loop's list posts, not yet iterated
    processed_count, failed_count,
    no_posts_count, consecutive_errors,
    failed_job,      \* queue loop: the error of the last iteration when its job failed, and
                     \* how many iterations in a row have failed a job
    wait,            \* seconds the consumer loop slept in its last step (0: no sleep)
    proc,            \* history: process_single_post calls per post and caller
    last,            \* history: what the last process_single_post call did
    \* core/service_manager.py: the supervised service threads
    svc,             \* service -> position of its thread
    stop_event,      \* the shared threading.Event
    sup_pc,          \* "init" before start_all_services, "running" after it
    background_threads,  \* names of the threads started, in order
    service_status,  \* service name -> status recorded at start
    \* the ticker_insights table and its two writers
    ti_rows,         \* the rows of ticker_insights
    wpc,             \* writer -> Idle, or the row it has built and is about to upsert
    issued,          \* number of rows built so far, the clock of updated_at
    last_upsert,     \* history: ticker -> the last upsert the table executed for it
    \* ---- two reputation awards to one user
    profile_rep,     \* profiles.reputation_score of the user
    initial_rep,     \* its value before the awards
    award_log,       \* awarder -> the statements it has executed, in order
    current_rep,     \* awarder -> the value its fallback read (current_rep)
    \* ---- MarketDataService: the Redis cache in front of the provider
    redis_available, \* self.redis_available, set by __init__
    cache,           \* function -> the Redis entry under its cache key
    ca_calls,        \* calls followed so far
    ca_last,         \* history: what the last call met and returned
    \* ---- GlobalAnalyst.tracked_tickers
    tracked_tickers, \* self.tracked_tickers
    rf_last,         \* history: the last ticker_insights query, its rows or its failure
    refreshes,       \* refresh_ticker_list calls so far
    \* ---- MaintenanceService.run_maintenance_loop
    consecutive_failures,  \* the loop's local counter
    mt_log,          \* history: per iteration, what the refresh met and what the loop did
    \* ---- the polling consumer over a table of more posts than one poll selects
    st_score,        \* post id -> "null", "zero" or "scored": the row's ai_score
    st_failing,      \* the posts whose analysis returns no insight every time
    st_posts,        \* the polling loop's list posts, not yet iterated
    st_passed        \* history: the posts passed to process_single_post so far

schedVars == << now, spc, now_et, last_run_date, next_open, runs, seen, runs_day,
                refreshed >>

batchVars == << bpc, ticker_list, batch_size, bat_i, batches, batch_result, sleeps,
                macro_fetches, analyst_ai, effects, chunk_failed, slept_seconds >>

aiVars == << apc, attempt, llm_calls, raw, parsed, validated, result, worker >>

fnVars == << rpc, score_a, score_b, risk_a, risk_b, ptext, presult, vdict, vresult,
            sv_in, sv_out,
                    bk_in, bk_out >>

botVars ==
    << bmode, redis_ok, cpc, ai_available, posts, insights, reputation, awarded, queue, todo,
       processed_count, failed_count, no_posts_count, consecutive_errors,
       failed_job, wait, proc, last >>

supVars == << svc, stop_event, sup_pc, background_threads, service_status >>

tiVars == << ti_rows, wpc, issued, last_upsert >>

awVars == << profile_rep, initial_rep, award_log, current_rep >>

cacheVars == << redis_available, cache, ca_calls, ca_last >>

refreshVars == << tracked_tickers, rf_last, refreshes >>

maintVars == << consecutive_failures, mt_log >>

starveVars == << st_score, st_failing, st_posts, st_passed >>

dataVars == << cacheVars, refreshVars, maintVars, starveVars >>

vars ==
    << comp, schedVars, batchVars, aiVars, fnVars, botVars, supVars, tiVars, awVars, dataVars >>

StartMinutes ==
    { 0, 9 * 60 + 29, 9 * 60 + 30, 9 * 60 + 31, 9 * 60 + 52, 9 * 60 + 55, 9 * 60 + 57,
      10 * 60, 11 * 60 + 56, 12 * 60, 14 * 60 + 27, 14 * 60 + 30, 15 * 60 + 59,
      16 * 60, 16 * 60 + 1, 23 * 60 + 59 }
StartTimes ==
    { d * DayLen + Mins(m) + f : d \in 0 .. 6, m \in StartMinutes, f \in {0, 1} }

NoRuns == [k \in Targets |-> 0]
NoneSeen == [k \in Targets |-> FALSE]

SchedOff ==
    /\ now = 0 /\ spc = "off" /\ now_et = 0 /\ last_run_date = NoDate
    /\ next_open = NoTime /\ runs = NoRuns /\ seen = NoneSeen /\ runs_day = 0
    /\ refreshed = FALSE

SchedInit ==
    /\ now \in StartTimes
    /\ spc = "top"
    /\ now_et = now
    /\ last_run_date = NoDate
    /\ next_open = NoTime
    /\ runs = NoRuns
    /\ seen = NoneSeen
    /\ runs_day = DayOf(now)
    /\ refreshed = FALSE

\* if not self.is_market_open(): ... (now_et was read as the loop came round)
SchedCheck ==
    /\ spc = "top"
    /\ DayOf(now_et) <= MaxDay
    /\ LET newday == DayOf(now_et) # runs_day
           r == IF newday THEN NoRuns ELSE runs
           s == IF newday THEN NoneSeen ELSE seen
       IN  /\ runs_day' = DayOf(now_et)
           /\ refreshed' = IF newday THEN FALSE ELSE refreshed
           /\ runs' = r
           /\ IF is_market_open(now_et)
              THEN /\ spc' = "open"
                   /\ next_open' = next_open
                   /\ seen' = IF NextTarget(now_et) # 0 /\ Abs(now_et - NextRun(now_et)) < Mins(5)
                              THEN [s EXCEPT ![NextTarget(now_et)] = TRUE]
                              ELSE s
              ELSE /\ spc' = "closed"
                   /\ next_open' = NextOpen(now_et)
                   /\ seen' = s
    /\ UNCHANGED << now, now_et, last_run_date >>

\* closed: time.sleep(max(60, sleep_seconds)); last_run_date = None; continue;
\* and round the loop: now_et = datetime.now(self.eastern)
SchedSleepClosed ==
    /\ spc = "closed"
    /\ now' \in WakeTimes(now, Max2(Mins(1), next_open - now_et))
    /\ now_et' = now'
    /\ last_run_date' = NoDate
    /\ spc' = "top"
    /\ UNCHANGED << next_open, runs, seen, runs_day, refreshed >>

\* open, inside the tolerance window and not run today: the analysis run starts
\* (refresh_ticker_list first when next_hour == 10)
SchedRunStart ==
    /\ spc = "open"
    /\ ShouldRun(now_et, last_run_date)
    /\ runs' = IF NextTarget(now_et) # 0
               THEN [runs EXCEPT ![NextTarget(now_et)] = @ + 1]
               ELSE runs
    /\ refreshed' = (refreshed \/ NextHour(now_et) = 10)
    /\ spc' = "running"
    /\ UNCHANGED << now, now_et, last_run_date, next_open, seen, runs_day >>

\* analyze_all_tickers returns; last_run_date = current_date
SchedRunEnd ==
    /\ spc = "running"
    /\ \E d \in 0 .. Mins(MaxRunDur) : now' = now + d
    /\ last_run_date' = DayOf(now_et)
    /\ spc' = "sleep"
    /\ UNCHANGED << now_et, next_open, runs, seen, runs_day, refreshed >>

\* open, no run in this iteration
SchedNoRun ==
    /\ spc = "open"
    /\ ~ShouldRun(now_et, last_run_date)
    /\ spc' = "sleep"
    /\ UNCHANGED << now, now_et, last_run_date, next_open, runs, seen, runs_day,
                    refreshed >>

\* sleep_seconds = max(60, next_run - datetime.now()); time.sleep(min(sleep_seconds, 300));
\* and round the loop: now_et = datetime.now(self.eastern)
SchedSleepOpen ==
    /\ spc = "sleep"
    /\ now' \in WakeTimes(now, Min2(Max2(Mins(1), NextRun(now_et) - now), Mins(5)))
    /\ now_et' = now'
    /\ spc' = "top"
    /\ UNCHANGED << last_run_date, next_open, runs, seen, runs_day, refreshed >>

(***************************************************************************)
(* GlobalAnalyst.analyze_all_tickers                                       *)
(***************************************************************************)
MaxTickers == 37     \* longest ticker list
MaxBatchSize == 10   \* largest batch_size
MaxDupLen == 3       \* longest ticker list drawn with repeated tickers

Iota(n) == [k \in 1 .. n |-> k]
SeqsUpTo(S, n) == UNION { [1 .. k -> S] : k \in 0 .. n }
TickerLists == { Iota(n) : n \in 0 .. MaxTickers } \cup SeqsUpTo({1, 2}, MaxDupLen)

\* a call while the market is open (Monday 12:00) and one while it is closed
\* (Saturday 12:00)
BatchCallTimes == { Mins(12 * 60), 5 * DayLen + Mins(12 * 60) }

\* ticker_list[i:i + batch_size]
BatchSlice_dropfirst(list, i, b) == SubSeq(list, i + 2, Min2(i + b, Len(list)))

BatchSlice(list, i, b) == SubSeq(list, i + 1, Min2(i + b, Len(list)))

\* analyze_batch has not been called
NoBatchCall == [kind |-> "none", returned |-> "none", upserts |-> 0]

BatchCall(kind, returned, upserts) == [kind |-> kind, returned |-> returned, upserts |-> upserts]

\* What one analyze_batch(batch) call can do: the kind of path taken, whether
\* it returns {} ("empty") or the parsed results, and how many ticker_insights
\* upserts it executed.
\*   no_data         every get_price_context returned None: return {}
\*   ai_unavailable  not self.ai_available: return {}
\*   ai_raises       generate_content raised: except, return {}
\*   unparsable      _parse_batch_response returned {}: nothing to save
\*   saved           every result saved
\*   save_failed     _save_ticker_insight returned False for every result
\*   stray_ticker    the results name a ticker without batch_data: KeyError
\*                   after the results before it were saved, return {}
Unparsable_partial == BatchCall("unparsable", "results", 1)

\* _parse_batch_response returned {}: the save loop has nothing to iterate over
Unparsable == BatchCall("unparsable", "empty", 0)

\* the paths of analyze_batch the partial-failure policy is about
ChunkFailure(r) == r.kind \in {"ai_raises", "unparsable"}

analyze_batch(batch, ai_ok) ==
    { BatchCall("no_data", "empty", 0) }
    \cup (IF ~ai_ok
          THEN { BatchCall("ai_unavailable", "empty", 0) }
          ELSE { BatchCall("ai_raises", "empty", 0),
                 Unparsable,
                 BatchCall("saved", "results", Len(batch)),
                 BatchCall("save_failed", "results", 0),
                 BatchCall("stray_ticker", "empty", 0),
                 BatchCall("stray_ticker", "empty", Len(batch) - 1) })

\* the external operations of one analyze_batch call
BatchEffects(r) ==
    {"market_data"}
    \cup (IF r.kind \in {"no_data", "ai_unavailable"} THEN {} ELSE {"ai_request"})
    \cup (IF r.upserts > 0 THEN {"upsert"} ELSE {})

BatchOff ==
    /\ bpc = "off" /\ ticker_list = << >> /\ batch_size = 0 /\ bat_i = 0
    /\ batches = << >> /\ batch_result = NoBatchCall /\ sleeps = 0 /\ macro_fetches = 0
    /\ analyst_ai = FALSE /\ effects = {} /\ chunk_failed = FALSE /\ slept_seconds = 0

BatchInit ==
    /\ bpc = "start"
    /\ ticker_list \in TickerLists
    /\ batch_size \in 1 .. MaxBatchSize
    /\ bat_i = 0
    /\ batches = << >>
    /\ batch_result = NoBatchCall
    /\ sleeps = 0
    /\ macro_fetches = 0
    /\ analyst_ai \in BOOLEAN
    /\ effects = {}
    /\ chunk_failed = FALSE
    /\ slept_seconds = 0

\* time.sleep(20)
PaceSeconds == 20

MoreChunks_or_last(list, i, b) == i + b <= Len(list)

\* if i + batch_size < len(ticker_list): this chunk is not the last
MoreChunks(list, i, b) == i + b < Len(list)

RunGate_always(t) == TRUE

\* the gate of analyze_all_tickers: self.is_market_open() at the time of the call
RunGate(t) == is_market_open(t)

\* if not self.is_market_open(): return
BatchSkip ==
    /\ bpc = "start"
    /\ ~RunGate(now)
    /\ bpc' = "skipped"
    /\ UNCHANGED << ticker_list, batch_size, bat_i, batches, batch_result, sleeps,
                    macro_fetches, analyst_ai, effects, chunk_failed, slept_seconds >>

\* macro_context = self.data_engine.get_macro_context(); for i in range(0, len, batch_size)
BatchBegin ==
    /\ bpc = "start"
    /\ RunGate(now)
    /\ macro_fetches' = macro_fetches + 1
    /\ bat_i' = 0
    /\ bpc' = IF 0 < Len(ticker_list) THEN "loop" ELSE "done"
    /\ UNCHANGED << ticker_list, batch_size, batches, batch_result, sleeps,
                    analyst_ai, effects, chunk_failed, slept_seconds >>

\* batch = ticker_list[i:i + batch_size]; results = self.analyze_batch(batch, macro_context)
BatchStep ==
    /\ bpc = "loop"
    /\ batches' = Append(batches, BatchSlice(ticker_list, bat_i, batch_size))
    /\ \E r \in analyze_batch(BatchSlice(ticker_list, bat_i, batch_size), analyst_ai) :
          /\ batch_result' = r
          /\ effects' = effects \cup BatchEffects(r)
          /\ chunk_failed' = (chunk_failed \/ ChunkFailure(r))
    /\ bpc' = IF MoreChunks(ticker_list, bat_i, batch_size) THEN "pace" ELSE "done"
    /\ UNCHANGED << ticker_list, batch_size, bat_i, sleeps, macro_fetches, analyst_ai,
                    slept_seconds >>

\* time.sleep(20), then the next i of the range
BatchPace ==
    /\ bpc = "pace"
    /\ sleeps' = sleeps + 1
    /\ slept_seconds' = slept_seconds + PaceSeconds
    /\ bat_i' = bat_i + batch_size
    /\ bpc' = IF bat_i + batch_size < Len(ticker_list) THEN "loop" ELSE "done"
    /\ UNCHANGED << ticker_list, batch_size, batches, batch_result, macro_fetches,
                    analyst_ai, effects, chunk_failed >>

NextBatch ==
    /\ comp = "batch"
    /\ \/ BatchSkip
       \/ BatchBegin
       \/ BatchStep
       \/ BatchPace
    /\ UNCHANGED << comp, schedVars, aiVars, fnVars, botVars, supVars, tiVars, awVars, dataVars >>

(***************************************************************************)
(* LLM output.  A text is a sequence of tokens: prose ("txt"), a code      *)
(* fence ("fence" for ```, "fencejson" for ```json), the braces, a comma,  *)
(* and "M", the members of the JSON object the text carries (obj).         *)
(* A dict is a record; "missing" marks an absent key; sentiment_score is   *)
(* [kind, val] with kind "int", "bad" (not a number) or "missing".         *)
(***************************************************************************)
MaxTextLen == 3      \* longest text drawn from all token sequences

None == [tag |-> "None"]
Tokens == {"txt", "fence", "fencejson", "{", "}", ",", "M"}
Fences == {"fence", "fencejson"}

IntScore(v) == [kind |-> "int", val |-> v]
MissingScore == [kind |-> "missing", val |-> 0]
BadScore == [kind |-> "bad", val |-> 0]

Dict(score, risk, thesis, summary) ==
    [tag |-> "dict", sentiment_score |-> score, risk_level |-> risk,
     user_thesis |-> thesis, summary |-> summary]
EmptyDict == Dict(MissingScore, "missing", "missing", "missing")

ScoreValues == {-5, 0, 19, 20, 39, 40, 59, 60, 79, 80, 92, 100, 150}
Scores == { IntScore(v) : v \in ScoreValues } \cup {MissingScore, BadScore}
Payloads ==
    { Dict(sc, rk, th, "text") :
        sc \in Scores, rk \in {"Extreme", "bogus", "missing"},
        th \in {"Bullish", "bearish", "bogus", "missing"} }
      \cup { Dict(sc, "Low", "Bullish", "missing") : sc \in Scores }
APayload == Dict(IntScore(92), "Extreme", "Bullish", "text")

Text(toks, obj) == [tag |-> "text", toks |-> toks, obj |-> obj]
NoText == [tag |-> "notext"]

WellFormed == << "{", "M", "}" >>
FencedJson == << "fencejson", "{", "M", "}", "fence" >>
FencedPlain == << "fence", "{", "M", "}", "fence" >>
InProse == << "txt", "{", "M", "}", "txt" >>
TrailingComma == << "{", "M", ",", "}" >>
FencedInProse == << "txt", "fencejson", "{", "M", "}", "fence", "txt" >>
Truncated == << "{", "M" >>
Templates ==
    { WellFormed, FencedJson, FencedPlain, InProse, TrailingComma, FencedInProse,
      Truncated, << "{", "}" >>, << "txt" >>, << >> }

FewPayloads ==
    { APayload, Dict(IntScore(150), "bogus", "Bullish", "text"),
      Dict(IntScore(0), "missing", "bearish", "text") }

\* every payload as well-formed JSON and a few payloads in every template
LLMTexts ==
    { Text(WellFormed, p) : p \in Payloads }
      \cup { Text(t, p) : t \in Templates, p \in FewPayloads }
\* the arguments of _parse_llm_response followed: the templates and every
\* short token sequence
ParseTexts ==
    { Text(t, p) : t \in Templates, p \in FewPayloads }
      \cup { Text(t, APayload) : t \in SeqsUpTo(Tokens, MaxTextLen) }
\* generate_content: a text, a FutureTimeoutError, or another exception
LLMOutcomes == LLMTexts \cup { [tag |-> "timeout"], [tag |-> "api_error"] }

(***************************************************************************)
(* json.loads on a token sequence: an object is "{" "}" or                 *)
(* "{" M ("," M)* "}"; anything else raises JSONDecodeError ("fail").      *)
(***************************************************************************)
IsMembers(toks) ==
    /\ Len(toks) % 2 = 1
    /\ \A k \in 1 .. Len(toks) : toks[k] = (IF k % 2 = 1 THEN "M" ELSE ",")
IsObject(toks) ==
    /\ Len(toks) >= 2
    /\ toks[1] = "{" /\ toks[Len(toks)] = "}"
    /\ Len(toks) = 2 \/ IsMembers(SubSeq(toks, 2, Len(toks) - 1))
Fail == [tag |-> "fail"]
JsonLoads(toks, obj) ==
    IF IsObject(toks) THEN (IF Len(toks) = 2 THEN EmptyDict ELSE obj) ELSE Fail

(***************************************************************************)
(* AIService._parse_llm_response                                           *)
(***************************************************************************)
\* Strategy 1: json.loads(raw_text)
Strategy1(t) == JsonLoads(t.toks, t.obj)

\* Strategy 2: re.search(r'```(?:json)?\s*(\{.*?\})\s*```', raw_text, DOTALL | IGNORECASE)
FenceMatches(toks) ==
    { ij \in (1 .. Len(toks)) \X (1 .. Len(toks)) :
        /\ ij[1] + 1 < ij[2] /\ ij[2] + 1 <= Len(toks)
        /\ toks[ij[1]] \in Fences /\ toks[ij[1] + 1] = "{"
        /\ toks[ij[2]] = "}" /\ toks[ij[2] + 1] \in Fences }
FirstFenceMatch(toks) ==
    CHOOSE ij \in FenceMatches(toks) :
        \A o \in FenceMatches(toks) :
            ij[1] < o[1] \/ (ij[1] = o[1] /\ ij[2] <= o[2])
Strategy2(t) ==
    IF FenceMatches(t.toks) = {} THEN Fail
    ELSE LET ij == FirstFenceMatch(t.toks)
         IN  JsonLoads(SubSeq(t.toks, ij[1] + 1, ij[2]), t.obj)

\* Strategy 3: raw_text[raw_text.find('{') : raw_text.rfind('}') + 1]
Positions(toks, c) == { k \in 1 .. Len(toks) : toks[k] = c }
SetMin(S) == CHOOSE x \in S : \A y \in S : x <= y
SetMax(S) == CHOOSE x \in S : \A y \in S : x >= y
Strategy3(t) ==
    IF Positions(t.toks, "{") = {} \/ Positions(t.toks, "}") = {} THEN Fail
    ELSE LET start_idx == SetMin(Positions(t.toks, "{"))
             end_idx == SetMax(Positions(t.toks, "}"))
         IN  IF end_idx > start_idx
             THEN JsonLoads(SubSeq(t.toks, start_idx, end_idx), t.obj)
             ELSE Fail

\* Strategy 4: strip, drop the ```json and ``` markers, json.loads
NotFence(c) == c \notin Fences
Strategy4(t) == JsonLoads(SelectSeq(t.toks, NotFence), t.obj)

AsParsed(r) == IF r = Fail THEN None ELSE r

parse_llm_response(t) ==
    IF t.toks = << >> THEN None
    ELSE IF Strategy1(t) # Fail THEN Strategy1(t)
    ELSE IF Strategy2(t) # Fail THEN Strategy2(t)
    ELSE IF Strategy3(t) # Fail THEN Strategy3(t)
    ELSE AsParsed(Strategy4(t))

(***************************************************************************)
(* AIService._calculate_risk_from_score                                    *)
(***************************************************************************)
calculate_risk_from_score_swapped(sentiment_score) ==
    IF sentiment_score >= 80 THEN "Low"
    ELSE IF sentiment_score >= 60 THEN "High"
    ELSE IF sentiment_score >= 40 THEN "Medium"
    ELSE IF sentiment_score >= 20 THEN "High"
    ELSE "High"

calculate_risk_from_score(sentiment_score) ==
    IF sentiment_score >= 80 THEN "Low"
    ELSE IF sentiment_score >= 60 THEN "Medium"
    ELSE IF sentiment_score >= 40 THEN "Medium"
    ELSE IF sentiment_score >= 20 THEN "High"
    ELSE "High"

(***************************************************************************)
(* AIAnalysisResult (pydantic): required fields, Field(ge=0, le=100) on    *)
(* sentiment_score, then the class validators.                             *)
(***************************************************************************)
VALID_USER_THESIS == {"Bullish", "Bearish", "Neutral"}
VALID_RISK_LEVELS == {"Low", "Medium", "High", "Extreme"}
DEFAULT_USER_THESIS == "Neutral"
DEFAULT_RISK_LEVEL_unknown == "Unknown"

DEFAULT_RISK_LEVEL == "Medium"

\* value.strip().capitalize() on the strings of the model
Capitalize(v) ==
    CASE v = "bearish" -> "Bearish"
      [] v = "bogus" -> "Bogus"
      [] OTHER -> v

validate_user_thesis(value) ==
    IF Capitalize(value) \notin VALID_USER_THESIS THEN DEFAULT_USER_THESIS
    ELSE Capitalize(value)

validate_risk_level(value) ==
    IF Capitalize(value) \notin VALID_RISK_LEVELS THEN DEFAULT_RISK_LEVEL
    ELSE Capitalize(value)

validate_sentiment_score(value) == Max2(0, Min2(100, value))

\* the checks that run before the class validators: the field is present, is
\* an integer, and satisfies ge=0, le=100
FieldsAccepted(d) ==
    /\ d.user_thesis # "missing"
    /\ d.summary # "missing"
    /\ d.risk_level # "missing"
    /\ d.sentiment_score.kind = "int"
    /\ 0 <= d.sentiment_score.val /\ d.sentiment_score.val <= 100

Insight(score, risk, thesis, summary) ==
    [tag |-> "insight", sentiment_score |-> score, risk_level |-> risk,
     user_thesis |-> thesis, summary |-> summary]

\* AIAnalysisResult(**d).dict(), or "fail" for a ValidationError
AIAnalysisResult(d) ==
    IF FieldsAccepted(d)
    THEN Insight(validate_sentiment_score(d.sentiment_score.val),
                 validate_risk_level(d.risk_level),
                 validate_user_thesis(d.user_thesis), d.summary)
    ELSE Fail

\* dict.get(key, default)
GetOr(v, default) == IF v = "missing" THEN default ELSE v

(***************************************************************************)
(* AIService._validate_analysis_result                                     *)
(***************************************************************************)
validate_analysis_result(parsed_result) ==
    IF AIAnalysisResult(parsed_result) # Fail THEN AIAnalysisResult(parsed_result)
    ELSE IF parsed_result.sentiment_score.kind = "bad" THEN None  \* int() raises ValueError
    ELSE LET sentiment_score ==
                 IF parsed_result.sentiment_score.kind = "missing" THEN 50
                 ELSE parsed_result.sentiment_score.val
             fallback_result ==
                 Dict(IntScore(sentiment_score),
                      calculate_risk_from_score(sentiment_score),
                      GetOr(parsed_result.user_thesis, "Neutral"),
                      GetOr(parsed_result.summary, "Analysis unavailable"))
         IN  AsParsed(AIAnalysisResult(fallback_result))

(***************************************************************************)
(* AIService.analyze_signal: one attempt after the response has arrived    *)
(***************************************************************************)
max_retries_three == 2 + 1

max_retries == 2

\* parsed_result['risk_level'] = calculated_risk
OverrideRisk_keep(parsed_result, calculated_risk) == parsed_result

OverrideRisk(parsed_result, calculated_risk) ==
    [parsed_result EXCEPT !.risk_level = calculated_risk]

\* if parsed_result: ...  (an empty dict is falsy)
Truthy(d) == d # None /\ d # EmptyDict

\* lines 415-430: the validated result of a response text, None when the
\* attempt fails (parse failure, int() raising, validation failure)
AttemptResult(text) ==
    LET parsed_result == parse_llm_response(text)
    IN  IF ~Truthy(parsed_result) THEN None
        ELSE IF parsed_result.sentiment_score.kind = "bad" THEN None
        ELSE LET sentiment_score ==
                     IF parsed_result.sentiment_score.kind = "missing" THEN 50
                     ELSE parsed_result.sentiment_score.val
                 calculated_risk == calculate_risk_from_score(sentiment_score)
             IN  validate_analysis_result(OverrideRisk(parsed_result, calculated_risk))

AIOff ==
    /\ apc = "off" /\ attempt = 0 /\ llm_calls = 0 /\ raw = NoText
    /\ parsed = None /\ validated = None /\ result = None /\ worker = "idle"

AIInit ==
    /\ apc = "call" /\ attempt = 0 /\ llm_calls = 0 /\ raw = NoText
    /\ parsed = None /\ validated = None /\ result = None /\ worker = "idle"

\* if attempt < max_retries - 1: continue  else: return None
AIRetryOrGiveUp ==
    IF attempt < max_retries - 1
    THEN attempt' = attempt + 1 /\ apc' = "call" /\ result' = None
    ELSE attempt' = attempt /\ apc' = "done" /\ result' = None

\* generate_content raises within the timeout: future.result re-raises it
\* (lines 406-412); the worker has finished, so leaving the with block is immediate
AICallFails ==
    /\ apc = "call"
    /\ attempt < max_retries
    /\ llm_calls' = llm_calls + 1
    /\ \E o \in { x \in LLMOutcomes \ LLMTexts : x.tag = "api_error" } : raw' = NoText
    /\ parsed' = None /\ validated' = None
    /\ AIRetryOrGiveUp
    /\ UNCHANGED worker

\* future.result(timeout=AI_API_TIMEOUT) raises FutureTimeoutError (lines 400-405):
\* the worker is still inside generate_content, and "continue" / "return None"
\* leave the with block, whose __exit__ is executor.shutdown(wait=True)
AICallTimesOut ==
    /\ apc = "call"
    /\ attempt < max_retries
    /\ llm_calls' = llm_calls + 1
    /\ \E o \in { x \in LLMOutcomes \ LLMTexts : x.tag = "timeout" } : raw' = NoText
    /\ parsed' = None /\ validated' = None
    /\ apc' = "shutdown"
    /\ worker' = "running"
    /\ UNCHANGED << attempt, result >>

\* the environment: a generate_content call that outlived the timeout returns
AIWorkerReturns ==
    /\ worker = "running"
    /\ worker' = "idle"
    /\ UNCHANGED << apc, attempt, llm_calls, raw, parsed, validated, result >>

\* ThreadPoolExecutor.__exit__: shutdown(wait=True) returns once the worker has
\* finished; then the continue / return None of the timeout handler takes effect
AIShutdownReturns ==
    /\ apc = "shutdown"
    /\ worker = "idle"
    /\ AIRetryOrGiveUp
    /\ UNCHANGED << llm_calls, raw, parsed, validated, worker >>

\* raw_text = response.text
AICallReturns ==
    /\ apc = "call"
    /\ attempt < max_retries
    /\ llm_calls' = llm_calls + 1
    /\ \E o \in LLMTexts : raw' = o
    /\ parsed' = None /\ validated' = None
    /\ apc' = "process"
    /\ UNCHANGED << attempt, result, worker >>

\* parse, override the risk, validate: return the insight or take the retry path
AIProcess ==
    /\ apc = "process"
    /\ parsed' = parse_llm_response(raw)
    /\ validated' = AttemptResult(raw)
    /\ IF AttemptResult(raw) # None
       THEN result' = AttemptResult(raw) /\ apc' = "done" /\ attempt' = attempt
       ELSE AIRetryOrGiveUp
    /\ UNCHANGED << llm_calls, raw, worker >>

\* the steps of the thread that called analyze_signal
NextAIThread ==
    /\ comp = "ai"
    /\ \/ AICallFails
       \/ AICallTimesOut
       \/ AICallReturns
       \/ AIShutdownReturns
       \/ AIProcess
    /\ UNCHANGED << comp, schedVars, batchVars, fnVars, botVars, supVars, tiVars, awVars, dataVars >>

\* the steps of the LLM client in the worker thread
NextAIWorker ==
    /\ comp = "ai"
    /\ AIWorkerReturns
    /\ UNCHANGED << comp, schedVars, batchVars, fnVars, botVars, supVars, tiVars, awVars, dataVars >>

NextAI == NextAIThread \/ NextAIWorker

(***************************************************************************)
(* Two successive calls of _calculate_risk_from_score on one service       *)
(***************************************************************************)
MaxScore == 100

Pending == [tag |-> "pending"]
NoSave == [tag |-> "nosave"]

RiskOff ==
    /\ rpc = "off" /\ score_a = 0 /\ score_b = 0
    /\ risk_a = "none" /\ risk_b = "none"
    /\ ptext = NoText /\ presult = Pending
    /\ vdict = EmptyDict /\ vresult = Pending
    /\ sv_in = NoSave /\ sv_out = Pending
    /\ bk_in = NoSave /\ bk_out = Pending

RiskInit ==
    /\ rpc = "first"
    /\ score_a \in 0 .. MaxScore /\ score_b \in 0 .. MaxScore
    /\ risk_a = "none" /\ risk_b = "none"
    /\ ptext = NoText /\ presult = Pending
    /\ vdict = EmptyDict /\ vresult = Pending
    /\ sv_in = NoSave /\ sv_out = Pending
    /\ bk_in = NoSave /\ bk_out = Pending

RiskFirstCall ==
    /\ rpc = "first"
    /\ risk_a' = calculate_risk_from_score(score_a)
    /\ rpc' = "second"
    /\ UNCHANGED << score_a, score_b, risk_b, ptext, presult, vdict, vresult, sv_in, sv_out,
                    bk_in, bk_out >>

RiskSecondCall ==
    /\ rpc = "second"
    /\ risk_b' = calculate_risk_from_score(score_b)
    /\ rpc' = "done"
    /\ UNCHANGED << score_a, score_b, risk_a, ptext, presult, vdict, vresult, sv_in, sv_out,
                    bk_in, bk_out >>

(***************************************************************************)
(* One call of _parse_llm_response                                         *)
(***************************************************************************)
ParseInit ==
    /\ rpc = "off" /\ score_a = 0 /\ score_b = 0
    /\ risk_a = "none" /\ risk_b = "none"
    /\ ptext \in ParseTexts /\ presult = Pending
    /\ vdict = EmptyDict /\ vresult = Pending
    /\ sv_in = NoSave /\ sv_out = Pending
    /\ bk_in = NoSave /\ bk_out = Pending

ParseCall ==
    /\ presult = Pending
    /\ presult' = parse_llm_response(ptext)
    /\ UNCHANGED << rpc, score_a, score_b, risk_a, risk_b, ptext, vdict, vresult, sv_in, sv_out,
                    bk_in, bk_out >>

(***************************************************************************)
(* One call of _validate_analysis_result                                   *)
(***************************************************************************)
ValidateInit ==
    /\ rpc = "off" /\ score_a = 0 /\ score_b = 0
    /\ risk_a = "none" /\ risk_b = "none"
    /\ ptext = NoText /\ presult = Pending
    /\ vdict \in Payloads /\ vresult = Pending
    /\ sv_in = NoSave /\ sv_out = Pending
    /\ bk_in = NoSave /\ bk_out = Pending

ValidateCall ==
    /\ vresult = Pending
    /\ vresult' = validate_analysis_result(vdict)
    /\ UNCHANGED << rpc, score_a, score_b, risk_a, risk_b, ptext, presult, vdict,
                    sv_in, sv_out,
                    bk_in, bk_out >>

NextValidate ==
    /\ comp = "validate"
    /\ ValidateCall
    /\ UNCHANGED << comp, schedVars, batchVars, aiVars, botVars, supVars, tiVars, awVars, dataVars >>

NextParse ==
    /\ comp = "parse"
    /\ ParseCall
    /\ UNCHANGED << comp, schedVars, batchVars, aiVars, botVars, supVars, tiVars, awVars, dataVars >>

NextRisk ==
    /\ comp = "risk"
    /\ \/ RiskFirstCall
       \/ RiskSecondCall
    /\ UNCHANGED << comp, schedVars, batchVars, aiVars, botVars, supVars, tiVars, awVars, dataVars >>

(***************************************************************************)
(* AIService.analyze_signal as a function of the outcomes of its LLM calls *)
(***************************************************************************)
AttemptOf(o) == IF o.tag = "text" THEN AttemptResult(o) ELSE None

RECURSIVE AnalyzeFrom(_, _)
AnalyzeFrom(os, att) ==
    IF att >= max_retries THEN None
    ELSE IF AttemptOf(os[att + 1]) # None THEN AttemptOf(os[att + 1])
    ELSE AnalyzeFrom(os, att + 1)

analyze_signal(os) == AnalyzeFrom(os, 0)

(***************************************************************************)
(* ResponseBotService                                                      *)
(***************************************************************************)
MaxProc == 2         \* consumer calls of process_single_post followed per post
MaxIngest == 1       \* /ingest requests followed
MaxIdlePolls == 12   \* cap of no_posts_count
MaxErrors == 3       \* cap of consecutive_errors

PostIds == {1, 2}
TickerOf(p) == IF p = 1 THEN "ACME" ELSE "ZZZZ"
Tickers == { TickerOf(p) : p \in PostIds }
UserOf(p) == "u1"
Users == { UserOf(p) : p \in PostIds }
Callers == {"consumer", "ingest"}

NullScore == -2      \* ai_score IS NULL
PostRow(score, risk, label, summary) ==
    [ai_score |-> score, ai_risk |-> risk, user_sentiment_label |-> label,
     ai_summary |-> summary]
NewPost == PostRow(NullScore, "none", "none", "none")
NoRow == [tag |-> "norow"]

\* the LLM outcomes followed in the consumers
BotPayloads ==
    { APayload,
      Dict(IntScore(35), "bogus", "bearish", "text"),
      Dict(IntScore(0), "missing", "bogus", "text"),
      Dict(IntScore(0), "High", "Bearish", "text"),
      Dict(IntScore(150), "Extreme", "Bullish", "text") }
BotOutcomes ==
    { Text(WellFormed, p) : p \in BotPayloads }
      \cup { [tag |-> "timeout"], Text(TrailingComma, APayload) }

get_signal_label(score) ==
    IF score >= 80 THEN "Strong Buy"
    ELSE IF score >= 60 THEN "Buy"
    ELSE IF score >= 40 THEN "Hold"
    ELSE IF score >= 20 THEN "Sell"
    ELSE "Strong Sell"

\* the row _update_ticker_insights upserts
TickerInsight(insight) ==
    [tag |-> "row", ai_score |-> insight.sentiment_score,
     ai_signal |-> get_signal_label(insight.sentiment_score),
     ai_risk |-> insight.risk_level, ai_summary |-> insight.summary]

\* lines 180-185
ReputationPoints(insight) ==
    IF insight.user_thesis = "Bullish" /\ insight.sentiment_score > 60 THEN 10
    ELSE IF insight.user_thesis = "Bearish" /\ insight.sentiment_score < 40 THEN 10
    ELSE 0

Last(p, market, insight, updated, upserted, ret) ==
    [post |-> p, market |-> market, insight |-> insight, updated |-> updated,
     upserted |-> upserted, ret |-> ret]
NoCall == Last(0, "none", None, FALSE, FALSE, FALSE)

\* line 119
InvalidTickerUpdate_zero(row) ==
    [row EXCEPT !.ai_score = 0, !.ai_summary = "Invalid Ticker"]

InvalidTickerUpdate(row) ==
    [row EXCEPT !.ai_score = -1, !.ai_summary = "Invalid Ticker"]

\* lines 129-137: ai_score None, the market data fields saved
UnavailableUpdate(row) ==
    [row EXCEPT !.ai_score = NullScore, !.ai_summary = "AI analysis unavailable"]

AnalysisUpdate_score_only(row, insight) ==
    [row EXCEPT !.ai_score = insight.sentiment_score]

NoInsightRow_marked(row) == [row EXCEPT !.ai_summary = "AI analysis failed"]

\* lines 207-209: no insight, a warning is logged and False returned; the row
\* is not written
NoInsightRow(row) == row

\* lines 157-167
AnalysisUpdate(row, insight) ==
    PostRow(insight.sentiment_score, insight.risk_level, insight.user_thesis,
            "AI Analysis")

(***************************************************************************)
(* process_single_post(post_id, ...) called by caller.  Its inputs: whether *)
(* a database statement raises, whether the Market Data Gateway returns    *)
(* null, what analyze_signal returns, and how the reputation award goes    *)
(* ("rpc": increment_reputation works; "fallback": it raises and the       *)
(* read-modify-write works; "raised": both raise).                         *)
(***************************************************************************)
\* what analyze_signal can return on the outcomes followed here
BotInsights == { analyze_signal(os) : os \in [1 .. max_retries -> BotOutcomes] }

RECURSIVE SumOver(_, _)
SumOver(f, S) ==
    IF S = {} THEN 0
    ELSE LET x == CHOOSE y \in S : TRUE IN f[x] + SumOver(f, S \ {x})
CallBudget(p, caller) ==
    IF caller = "consumer" THEN proc[p][caller] < MaxProc
    ELSE SumOver([q \in PostIds |-> proc[q][caller]], PostIds) < MaxIngest

process_single_post(post_id, caller) ==
    LET ticker == TickerOf(post_id)
        user_id == UserOf(post_id)
        Nothing(market, ins) ==
            /\ UNCHANGED << posts, insights, reputation, awarded >>
            /\ last' = Last(post_id, market, ins, FALSE, FALSE, FALSE)
        Update(row, market, ret) ==
            \E update_ok \in BOOLEAN :
                IF update_ok
                THEN /\ posts' = [posts EXCEPT ![post_id] = row]
                     /\ UNCHANGED << insights, reputation, awarded >>
                     /\ last' = Last(post_id, market, None, TRUE, FALSE, ret)
                ELSE Nothing(market, None)
        Analysed(insight) ==
            LET points == ReputationPoints(insight)
            IN  \E upsert_ok \in BOOLEAN,
                   award \in (IF points > 0 THEN {"rpc", "fallback", "raised"} ELSE {"none"}) :
                    /\ posts' = [posts EXCEPT ![post_id] = AnalysisUpdate(@, insight)]
                    /\ insights' = IF upsert_ok
                                   THEN [insights EXCEPT ![ticker] = TickerInsight(insight)]
                                   ELSE insights
                    /\ reputation' = IF award \in {"rpc", "fallback"}
                                     THEN [reputation EXCEPT ![user_id] = @ + points]
                                     ELSE reputation
                    /\ awarded' = IF award \in {"rpc", "fallback"}
                                  THEN [awarded EXCEPT ![post_id] = @ + 1]
                                  ELSE awarded
                    /\ last' = Last(post_id, "data", insight, TRUE, upsert_ok,
                                    award # "raised")
    IN  /\ CallBudget(post_id, caller)
        /\ proc' = [proc EXCEPT ![post_id][caller] = @ + 1]
        /\ \/ Nothing("none", None)                           \* line 108 raises
           \/ Update(InvalidTickerUpdate(posts[post_id]), "null", FALSE)
           \/ /\ ~ai_available
              /\ Update(UnavailableUpdate(posts[post_id]), "data", TRUE)
           \/ /\ ai_available
              /\ \E insight \in BotInsights :
                    IF insight = None
                    THEN /\ posts' = [posts EXCEPT ![post_id] = NoInsightRow(@)]
                         /\ UNCHANGED << insights, reputation, awarded >>
                         /\ last' = Last(post_id, "data", None, FALSE, FALSE, FALSE)
                    ELSE \/ Nothing("data", insight)                  \* lines 204-206
                         \/ Analysed(insight)

(***************************************************************************)
(* process_unprocessed_posts_from_db                                       *)
(***************************************************************************)
PollLimit == 10
RECURSIVE SortedSeq(_)
SortedSeq(S) ==
    IF S = {} THEN << >>
    ELSE LET x == SetMin(S) IN << x >> \o SortedSeq(S \ {x})
Take(q, n) == SubSeq(q, 1, Min2(n, Len(q)))
\* .order("created_at").limit(10): post ids are in creation order
SelectByScore_lte(score) ==
    Take(SortedSeq({ p \in PostIds : posts[p].ai_score <= score }), PollLimit)
SelectByScore(score) ==
    Take(SortedSeq({ p \in PostIds : posts[p].ai_score = score }), PollLimit)
Pow2(n) == IF n = 0 THEN 1 ELSE IF n = 1 THEN 2 ELSE IF n = 2 THEN 4
           ELSE IF n = 3 THEN 8 ELSE 16
Bump(n) == Min2(n + 1, MaxErrors)

\* An exception as the except clauses see it: its class, and which of the
\* substrings they look for str(e) contains ("429" stands for '429' or 'quota',
\* "database" for 'database' or 'supabase')
ErrorTypes == {"Exception", "redis.ConnectionError", "json.JSONDecodeError"}
MsgMarks == {"429", "timeout", "connection", "database"}
Errors == [type : ErrorTypes, msg : SUBSET MsgMarks]
\* what handling a popped job raises: json.loads on the payload, or the lookup
\* of the post
JobErrors ==
    { x \in Errors : \/ x.type = "Exception"
                     \/ x.type = "json.JSONDecodeError" /\ x.msg = {} }
NoError == [type |-> "none", msg |-> {}]
NoJobError == [err |-> NoError, run |-> 0]

\* lines 388-403: the delay of the polling loop's except clause, n = consecutive_errors
poll_delay(e, n) ==
    IF "429" \in e.msg THEN Min2(5 * Pow2(Min2(n, 4)), 300)
    ELSE IF "timeout" \in e.msg \/ "connection" \in e.msg THEN Min2(5 * Pow2(Min2(n, 3)), 180)
    ELSE IF "database" \in e.msg THEN Min2(5 * Pow2(Min2(n, 3)), 120)
    ELSE Min2(5 * Pow2(Min2(n, 3)), 60)

\* lines 357-365: the delay of the per-post except clause, n = failed_count
post_delay(e, n) ==
    IF "429" \in e.msg THEN Min2(60 * Pow2(Min2(n, 2)), 300)
    ELSE IF "timeout" \in e.msg \/ "connection" \in e.msg THEN Min2(5 * Pow2(Min2(n, 2)), 120)
    ELSE Min2(5 * Pow2(Min2(n, 1)), 30)

\* the queue loop's clauses with base_delay in the 429 branch
queue_delay_base_rate(e, n) ==
    IF e.type = "redis.ConnectionError" THEN Min2(2 * Pow2(Min2(n, 4)), 60)
    ELSE IF e.type = "json.JSONDecodeError" THEN Min2(2 * Pow2(Min2(n, 2)), 10)
    ELSE IF "429" \in e.msg THEN Min2(2 * Pow2(Min2(n, 2)), 60)
    ELSE IF "timeout" \in e.msg THEN Min2(2 * Pow2(Min2(n, 2)), 30)
    ELSE Min2(2 * Pow2(Min2(n, 1)), 10)

\* lines 459-500: the delay of the queue loop's three except clauses,
\* n = consecutive_errors; the last clause looks for 'timeout' only
queue_delay(e, n) ==
    IF e.type = "redis.ConnectionError" THEN Min2(2 * Pow2(Min2(n, 4)), 60)
    ELSE IF e.type = "json.JSONDecodeError" THEN Min2(2 * Pow2(Min2(n, 2)), 10)
    ELSE IF "429" \in e.msg THEN Min2(30 * Pow2(Min2(n, 2)), 60)
    ELSE IF "timeout" \in e.msg THEN Min2(2 * Pow2(Min2(n, 2)), 30)
    ELSE Min2(2 * Pow2(Min2(n, 1)), 10)

\* lines 299-303: the sleep after the n-th consecutive empty poll
current_poll_interval_flat(n) == 60
current_poll_interval(n) == IF n > 10 THEN Min2(60 * 2, 120) ELSE 60

\* lines 272-313: the two queries, then either the idle sleep or the list to iterate
PollSelect ==
    /\ bmode = "poll" /\ cpc = "poll"
    /\ consecutive_errors' = 0
    /\ LET found == SelectByScore(NullScore) \o SelectByScore(0)
       IN  IF found = << >>
           THEN /\ no_posts_count' = Min2(no_posts_count + 1, MaxIdlePolls)
                /\ wait' = current_poll_interval(no_posts_count + 1)
                /\ UNCHANGED << cpc, todo, processed_count, failed_count >>
           ELSE /\ no_posts_count' = 0
                /\ todo' = found
                /\ processed_count' = 0 /\ failed_count' = 0
                /\ cpc' = "posts"
                /\ wait' = 0
    /\ UNCHANGED << bmode, redis_ok, ai_available, posts, insights, reputation, awarded, queue, failed_job,
                    proc, last >>

\* lines 382-406: a query raises
PollQueryError ==
    /\ bmode = "poll" /\ cpc = "poll"
    /\ consecutive_errors' = Bump(consecutive_errors)
    /\ wait' \in { poll_delay(e, consecutive_errors + 1) : e \in Errors }
    /\ UNCHANGED << bmode, redis_ok, cpc, ai_available, posts, insights, reputation, awarded, queue, todo,
                    processed_count, failed_count, no_posts_count, failed_job, proc, last >>

\* lines 320-349: one iteration of "for post in posts"; the selected rows have
\* ai_score null or 0, so the skip test of line 326 is false
PollProcessPost ==
    /\ bmode = "poll" /\ cpc = "posts" /\ todo # << >>
    /\ process_single_post(Head(todo), "consumer")
    /\ todo' = Tail(todo)
    /\ IF last'.ret
       THEN /\ processed_count' = processed_count + 1
            /\ failed_count' = failed_count
            /\ wait' = IF failed_count = 0 THEN 1 ELSE 2
       ELSE /\ failed_count' = failed_count + 1
            /\ processed_count' = processed_count
            /\ wait' = Min2(5 * Pow2(Min2(failed_count + 1, 3)), 300)
    /\ UNCHANGED << bmode, redis_ok, cpc, ai_available, queue, no_posts_count, consecutive_errors,
                    failed_job >>

\* lines 370-380: the wait before the next poll
PollEnd ==
    /\ bmode = "poll" /\ cpc = "posts" /\ todo = << >>
    /\ wait' = IF processed_count > 0 THEN 10 ELSE 60
    /\ cpc' = "poll"
    /\ UNCHANGED << bmode, redis_ok, ai_available, posts, insights, reputation, awarded, queue, todo,
                    processed_count, failed_count, no_posts_count, consecutive_errors,
                    failed_job, proc, last >>

(***************************************************************************)
(* process_user_posts (the queue consumer)                                 *)
(***************************************************************************)
\* lines 431-457: blpop returns a job, consecutive_errors is reset, the post is
\* fetched and processed
QueueJob ==
    /\ bmode = "queue" /\ cpc = "pop" /\ queue # << >>
    /\ queue' = Tail(queue)
    /\ consecutive_errors' = 0
    /\ failed_job' = NoJobError
    /\ process_single_post(Head(queue), "consumer")
    /\ wait' = 0
    /\ redis_ok' = TRUE
    /\ UNCHANGED << bmode, cpc, ai_available, todo, processed_count, failed_count,
                    no_posts_count >>

\* blpop times out after 30 s with no job
QueueIdle ==
    /\ bmode = "queue" /\ cpc = "pop" /\ queue = << >>
    /\ consecutive_errors' = 0
    /\ failed_job' = NoJobError
    /\ wait' = 0
    /\ redis_ok' = TRUE
    /\ UNCHANGED << bmode, cpc, ai_available, posts, insights, reputation, awarded, queue, todo,
                    processed_count, failed_count, no_posts_count, proc, last >>

\* lines 459-476: blpop raises redis.ConnectionError; the loop backs off,
\* tries to reconnect and stays in the queue loop
QueueConnectionError ==
    /\ bmode = "queue" /\ cpc = "pop"
    /\ wait' = queue_delay([type |-> "redis.ConnectionError", msg |-> {"connection"}],
                           consecutive_errors + 1)
    /\ \E reconnected \in BOOLEAN :
         /\ consecutive_errors' = IF reconnected THEN 0 ELSE Bump(consecutive_errors)
         /\ redis_ok' = reconnected
    /\ failed_job' = NoJobError
    /\ UNCHANGED << bmode, cpc, ai_available, posts, insights, reputation, awarded, queue, todo,
                    processed_count, failed_count, no_posts_count, proc, last >>

\* lines 478-500: blpop itself raises another exception (a redis timeout, a
\* response error): no job was taken and consecutive_errors was not reset
QueuePopError ==
    /\ bmode = "queue" /\ cpc = "pop"
    /\ consecutive_errors' = Bump(consecutive_errors)
    /\ wait' \in { queue_delay(e, consecutive_errors + 1) :
                      e \in { x \in Errors : x.type = "Exception" } }
    /\ failed_job' = NoJobError
    /\ UNCHANGED << bmode, redis_ok, cpc, ai_available, posts, insights, reputation, awarded, queue,
                    todo, processed_count, failed_count, no_posts_count, proc, last >>

\* lines 431-457, 478-500: blpop returned a job, so line 434 set
\* consecutive_errors to 0; then the job cannot be decoded or fetching its
\* post raises, and the except clause counts from 0
QueueJobError ==
    /\ bmode = "queue" /\ cpc = "pop" /\ queue # << >>
    /\ queue' = Tail(queue)
    /\ consecutive_errors' = 0 + 1
    /\ \E e \in JobErrors :
         /\ wait' = queue_delay(e, 0 + 1)
         /\ failed_job' = [err |-> e, run |-> Bump(failed_job.run)]
    /\ redis_ok' = TRUE
    /\ UNCHANGED << bmode, cpc, ai_available, posts, insights, reputation, awarded, todo,
                    processed_count, failed_count, no_posts_count, proc, last >>

\* POST /ingest (api/routes.py) calls process_single_post on the service
Ingest ==
    /\ \E p \in PostIds : process_single_post(p, "ingest")
    /\ UNCHANGED << bmode, redis_ok, cpc, ai_available, queue, todo, processed_count,
                    failed_count, no_posts_count, consecutive_errors, failed_job,
                    wait >>

NoDupSeqs(S) == { q \in SeqsUpTo(S, Cardinality(S)) : \A i, j \in 1 .. Len(q) : i # j => q[i] # q[j] }

BotTablesInit ==
    /\ posts = [p \in PostIds |-> NewPost]
    /\ insights = [t \in Tickers |-> NoRow]
    /\ reputation = [u \in Users |-> 0]
    /\ awarded = [p \in PostIds |-> 0]
    /\ proc = [p \in PostIds |-> [c \in Callers |-> 0]]
    /\ last = NoCall
    /\ failed_job = NoJobError

BotOff ==
    /\ bmode = "off" /\ redis_ok = FALSE /\ cpc = "off" /\ ai_available = FALSE
    /\ BotTablesInit
    /\ queue = << >> /\ todo = << >>
    /\ processed_count = 0 /\ failed_count = 0
    /\ no_posts_count = 0 /\ consecutive_errors = 0 /\ wait = 0

\* the posts exist unanalysed; with the queue reachable each has at most one job queued
BotInit ==
    /\ redis_ok \in BOOLEAN                     \* self.redis.ping() in __init__
    /\ bmode = (IF redis_ok THEN "queue" ELSE "poll")
    /\ cpc = (IF bmode = "poll" THEN "poll" ELSE "pop")
    /\ ai_available \in BOOLEAN
    /\ BotTablesInit
    /\ queue \in (IF bmode = "queue" THEN NoDupSeqs(PostIds) ELSE {<< >>})
    /\ todo = << >>
    /\ processed_count = 0 /\ failed_count = 0
    /\ no_posts_count = 0 /\ consecutive_errors = 0 /\ wait = 0

NextBot ==
    /\ comp = "bot"
    /\ \/ PollSelect
       \/ PollQueryError
       \/ PollProcessPost
       \/ PollEnd
       \/ QueueJob
       \/ QueueIdle
       \/ QueueConnectionError
       \/ QueuePopError
       \/ QueueJobError
    /\ UNCHANGED << comp, schedVars, batchVars, aiVars, fnVars, supVars, tiVars, awVars, dataVars >>

\* the consumer together with the API server
NextBotApi ==
    /\ comp = "bot"
    /\ \/ NextBot
       \/ Ingest
    /\ UNCHANGED << comp, schedVars, batchVars, aiVars, fnVars, supVars, tiVars, awVars, dataVars >>

(***************************************************************************)
(* The supervised services (core/service_manager.py).  Each thread runs    *)
(* its service's loop: "top" is the loop boundary, "working" an iteration  *)
(* body in flight, "sleeping" the sleep that ends the iteration, "exited"  *)
(* the loop left through its stop test, "crashed" the thread ended by an   *)
(* exception, "nothread" a service whose construction failed.              *)
(* stop_all_services sets stop_event; the joins that follow only wait (10  *)
(* s each) and record shutdown_status, they end no thread.                 *)
(***************************************************************************)
Services == {"MarketMaker", "ResponseBot", "GlobalAnalyst", "NewsService", "MaintenanceService"}

\* the loop condition reads stop_event: only run_news_service ("while not
\* stop_event.is_set()"); the other four loops are "while True"
ChecksStop(s) == s = "NewsService"

\* the try/except Exception is inside the while loop (ResponseBotService.run,
\* run_maintenance_loop); in MarketMakerService.run, run_continuous and
\* run_news_service the try statement encloses the whole loop
HandlerInLoop(s) == s \in {"ResponseBot", "MaintenanceService"}

services_config_no_maintenance ==
    << "MarketMaker", "ResponseBot", "GlobalAnalyst", "NewsService" >>

\* services_config, by service name
services_config ==
    << "MarketMaker", "ResponseBot", "GlobalAnalyst", "NewsService", "MaintenanceService" >>

NoStatus == << >>

\* start_service(name, ...): ok is whether construction and thread start went
\* through; st is [threads, status], the lists being filled
start_service(name, ok, st) ==
    IF ok
    THEN [threads |-> Append(st.threads, name),
          status |-> (name :> [initialized |-> TRUE, thread_alive |-> TRUE,
                               error |-> "none"]) @@ st.status]
    ELSE [threads |-> st.threads,
          status |-> (name :> [initialized |-> FALSE, thread_alive |-> FALSE,
                               error |-> "init error"]) @@ st.status]

\* for service_name, service_class, target_method in services_config: start_service(...)
RECURSIVE StartEach(_, _, _)
StartEach(config, ok, st) ==
    IF config = << >> THEN st
    ELSE StartEach(Tail(config), ok, start_service(Head(config), ok[Head(config)], st))

IsAlive(s) == svc[s] \in {"top", "working", "sleeping"}

\* get_service_status(): the threads' entries with their current liveness, then
\* the services that failed to initialise
get_service_status ==
    LET started == { background_threads[i] : i \in DOMAIN background_threads }
    IN  [name \in started \cup DOMAIN service_status |->
            IF name \in started
            THEN [initialized |-> service_status[name].initialized,
                  thread_alive |-> IsAlive(name),
                  error |-> service_status[name].error]
            ELSE service_status[name]]

SupOff ==
    /\ svc = [s \in Services |-> "nothread"]
    /\ stop_event = FALSE
    /\ sup_pc = "off" /\ background_threads = << >> /\ service_status = NoStatus

SupInit ==
    /\ svc = [s \in Services |-> "nothread"]
    /\ stop_event = FALSE
    /\ sup_pc = "init" /\ background_threads = << >> /\ service_status = NoStatus

\* start_all_services: every configured service is attempted; one whose
\* constructor raises gets no thread
StartAllServices ==
    /\ comp = "sup"
    /\ sup_pc = "init"
    /\ \E ok \in [Services -> BOOLEAN] :
          LET st == StartEach(services_config, ok, [threads |-> << >>, status |-> NoStatus])
          IN  /\ background_threads' = st.threads
              /\ service_status' = st.status
              /\ svc' = [s \in Services |->
                            IF \E i \in DOMAIN st.threads : st.threads[i] = s
                            THEN "top" ELSE "nothread"]
    /\ sup_pc' = "running"
    /\ UNCHANGED stop_event
    /\ UNCHANGED << comp, schedVars, batchVars, aiVars, fnVars, botVars, tiVars, awVars, dataVars >>

\* the loop condition is evaluated
SvcLoopTop(s) ==
    /\ svc[s] = "top"
    /\ svc' = [svc EXCEPT ![s] = IF ChecksStop(s) /\ stop_event THEN "exited" ELSE "working"]
    /\ UNCHANGED << stop_event, sup_pc, background_threads, service_status >>

\* the iteration body returns and the loop sleeps
SvcIterationReturns(s) ==
    /\ svc[s] = "working"
    /\ svc' = [svc EXCEPT ![s] = "sleeping"]
    /\ UNCHANGED << stop_event, sup_pc, background_threads, service_status >>

\* the iteration body raises: a handler inside the loop logs, sleeps and goes
\* on; a handler around the loop logs and the target function returns
SvcIterationRaises(s) ==
    /\ svc[s] = "working"
    /\ svc' = [svc EXCEPT ![s] = IF HandlerInLoop(s) THEN "sleeping" ELSE "crashed"]
    /\ UNCHANGED << stop_event, sup_pc, background_threads, service_status >>

\* time.sleep returns (run_news_service sleeps in 1 s slices and breaks when
\* the event is set): back to the loop boundary
SvcSleepReturns(s) ==
    /\ svc[s] = "sleeping"
    /\ svc' = [svc EXCEPT ![s] = "top"]
    /\ UNCHANGED << stop_event, sup_pc, background_threads, service_status >>

SvcStep(s) ==
    /\ comp = "sup"
    /\ \/ SvcLoopTop(s)
       \/ SvcIterationReturns(s)
       \/ SvcIterationRaises(s)
       \/ SvcSleepReturns(s)
    /\ UNCHANGED << comp, schedVars, batchVars, aiVars, fnVars, botVars, tiVars, awVars, dataVars >>

\* the steps of s in which nothing raises
SvcQuietStep(s) ==
    /\ comp = "sup"
    /\ \/ SvcLoopTop(s)
       \/ SvcIterationReturns(s)
       \/ SvcSleepReturns(s)
    /\ UNCHANGED << comp, schedVars, batchVars, aiVars, fnVars, botVars, tiVars, awVars, dataVars >>

\* stop_all_services: stop_event.set()
StopAll ==
    /\ comp = "sup"
    /\ sup_pc = "running"
    /\ ~stop_event
    /\ stop_event' = TRUE
    /\ UNCHANGED << svc, sup_pc, background_threads, service_status >>
    /\ UNCHANGED << comp, schedVars, batchVars, aiVars, fnVars, botVars, tiVars, awVars, dataVars >>

NextSup ==
    \/ StartAllServices
    \/ \E s \in Services : SvcStep(s)
    \/ StopAll

(***************************************************************************)
(* The ticker_insights table under its two writers: the Batch Scheduler    *)
(* (GlobalAnalyst._save_ticker_insight) and the Job Consumers              *)
(* (ResponseBotService._update_ticker_insights).  A writer builds its row  *)
(* from the analysis it holds and then sends one upsert statement; the     *)
(* table executes the statements of the two writers one at a time, in      *)
(* whatever order they arrive.                                             *)
(***************************************************************************)
MaxUpserts == 4      \* rows built by the two writers together

Writers == {"scheduler", "consumer"}
Columns == {"ticker", "ai_score", "ai_signal", "ai_risk", "ai_summary", "roe", "updated_at"}
AIColumns == {"ai_score", "ai_signal", "ai_risk", "ai_summary"}
SqlNull == "null"
Idle == [tag |-> "idle"]

on_conflict_ai_signal == "ai_signal"

on_conflict_updated_at == "updated_at"

\* upsert(ticker_insight, on_conflict='ticker')
on_conflict == "ticker"

\* the analyses of one ticker a batch response can hold: {"score", "risk", "summary"}
BatchAnalyses ==
    { [score |-> IntScore(75), risk |-> "Medium", summary |-> "batch text"],
      [score |-> IntScore(30), risk |-> "Extreme", summary |-> "batch text"],
      [score |-> MissingScore, risk |-> "missing", summary |-> "missing"],
      [score |-> BadScore, risk |-> "Low", summary |-> "batch text"],
      [score |-> IntScore(150), risk |-> "Moderate", summary |-> "batch text"] }

\* _save_ticker_insight: the ticker_insight dict (Fail when int(...) raises,
\* which its except turns into return False before any statement is sent)
SavedInsight(ticker, analysis, utcnow) ==
    IF analysis.score = BadScore THEN Fail
    ELSE LET ai_score == IF analysis.score = MissingScore THEN 50 ELSE analysis.score.val
         IN  [ticker |-> ticker,
              ai_score |-> ai_score,
              ai_signal |-> get_signal_label(ai_score),
              ai_risk |-> GetOr(analysis.risk, "Medium"),
              ai_summary |-> GetOr(analysis.summary, "No analysis available"),
              roe |-> "market data",
              updated_at |-> utcnow]

\* _update_ticker_insights: the ticker_insight dict; it has no fundamentals columns
UpdatedInsight(ticker, insight, utcnow) ==
    [ticker |-> ticker,
     ai_score |-> TickerInsight(insight).ai_score,
     ai_signal |-> TickerInsight(insight).ai_signal,
     ai_risk |-> TickerInsight(insight).ai_risk,
     ai_summary |-> TickerInsight(insight).ai_summary,
     updated_at |-> utcnow]

\* the rows a writer can build at time utcnow
WriterRows(w, utcnow) ==
    IF w = "scheduler"
    THEN { SavedInsight(t, a, utcnow) : t \in Tickers, a \in BatchAnalyses }
    ELSE { UpdatedInsight(t, i, utcnow) : t \in Tickers, i \in BotInsights \ {None} }

\* INSERT ... ON CONFLICT (key) DO UPDATE: a row with the same key takes the
\* columns supplied and keeps its others, else a new row is inserted
Upsert(rows, cols, key) ==
    IF \E r \in rows : r[key] = cols[key]
    THEN { IF r[key] = cols[key]
           THEN [c \in Columns |-> IF c \in DOMAIN cols THEN cols[c] ELSE r[c]]
           ELSE r : r \in rows }
    ELSE rows \cup { [c \in Columns |-> IF c \in DOMAIN cols THEN cols[c] ELSE SqlNull] }

\* the columns of a statement other than its timestamp
Content(cols) == [c \in DOMAIN cols \ {"updated_at"} |-> cols[c]]

\* history record of an executed upsert; again: it repeated the content of the
\* upsert executed before it for the same ticker
NoUpsert == [writer |-> "none", cols |-> Idle, again |-> FALSE]

TiOff ==
    /\ ti_rows = {} /\ wpc = [w \in Writers |-> Idle] /\ issued = 0
    /\ last_upsert = [t \in Tickers |-> NoUpsert]

TiInit == TiOff

\* the writer builds its row; a row that cannot be built ends the save
WriterBuild(w) ==
    /\ wpc[w] = Idle
    /\ issued < MaxUpserts
    /\ issued' = issued + 1
    /\ \E row \in WriterRows(w, issued + 1) :
          wpc' = [wpc EXCEPT ![w] = IF row = Fail THEN Idle ELSE row]
    /\ UNCHANGED << ti_rows, last_upsert >>

\* .upsert(...).execute(): the table executes the statement, or the call raises
\* and the writer's except logs it
WriterUpsert(w) ==
    /\ wpc[w] # Idle
    /\ \E executed \in BOOLEAN :
          IF executed
          THEN /\ ti_rows' = Upsert(ti_rows, wpc[w], on_conflict)
               /\ last_upsert' = [last_upsert EXCEPT ![wpc[w].ticker] =
                                     [writer |-> w, cols |-> wpc[w],
                                      again |-> /\ @ # NoUpsert
                                                /\ Content(@.cols) = Content(wpc[w])]]
          ELSE UNCHANGED << ti_rows, last_upsert >>
    /\ wpc' = [wpc EXCEPT ![w] = Idle]
    /\ UNCHANGED issued

NextTi ==
    /\ comp = "ti"
    /\ \E w \in Writers : WriterBuild(w) \/ WriterUpsert(w)
    /\ UNCHANGED << comp, schedVars, batchVars, aiVars, fnVars, botVars, supVars, awVars, dataVars >>

NextSched ==
    /\ comp = "sched"
    /\ \/ SchedCheck
       \/ SchedSleepClosed
       \/ SchedRunStart
       \/ SchedRunEnd
       \/ SchedNoRun
       \/ SchedSleepOpen
    /\ UNCHANGED << comp, batchVars, aiVars, fnVars, botVars, supVars, tiVars, awVars, dataVars >>

(***************************************************************************)
(* MarketDataService.get_price_context and get_technical_analysis: read    *)
(* the cache, else ask the provider, write the cache, return the data.     *)
(***************************************************************************)
MaxCalls == 3
CachedFns == {"get_price_context", "get_technical_analysis"}
Quotes == {"quote_a", "quote_b"}

\* json.dumps / json.loads of a data dict; a mangled entry does not load
NoEntry == [tag |-> "nil"]
Corrupt == [tag |-> "corrupt"]
Dumps(data) == [tag |-> "json", text |-> data]
Loadable(entry) == entry.tag = "json"
Loads(entry) == entry.text

\* what the provider does for one call: the data computed, or the reason
\* the function returns None ("no_pandas_ta" is the test before the cache read)
Upstreams(fn) ==
    [kind : {"data"}, data : Quotes]
      \cup [kind : {"raises"} \cup (IF fn = "get_price_context"
                                    THEN {"bad_price"}
                                    ELSE {"empty", "no_pandas_ta"}),
            data : {"none"}]

ProviderResult(u) == IF u.kind = "data" THEN u.data ELSE "None"

CacheOutcome(returned, hit, entry, read_error, write_error) ==
    [result |-> returned, hit |-> hit, entry |-> entry,
     read_error |-> read_error, write_error |-> write_error]

\* the function with a failed cache read ending the call
CacheAside_read_error_fatal(fn, avail, entry, read_raises, u, write_raises) ==
    IF u.kind = "no_pandas_ta" THEN CacheOutcome("None", FALSE, entry, FALSE, FALSE)
    ELSE IF avail /\ read_raises THEN CacheOutcome("None", FALSE, entry, TRUE, FALSE)
    ELSE IF avail /\ Loadable(entry)
         THEN CacheOutcome(Loads(entry), TRUE, entry, FALSE, FALSE)
    ELSE LET read_error == avail /\ entry = Corrupt
             data == ProviderResult(u)
         IN  IF data = "None" THEN CacheOutcome("None", FALSE, entry, read_error, FALSE)
             ELSE IF avail /\ ~write_raises
                  THEN CacheOutcome(data, FALSE, Dumps(data), read_error, FALSE)
                  ELSE CacheOutcome(data, FALSE, entry, read_error, avail)

\* lines 94-221 and 275-396.  Step A returns a loadable entry; redis.get or
\* json.loads raising is logged and the call goes on.  Step B returns None
\* when the provider gives nothing.  Step C stores the data; setex raising is
\* logged and the data returned.
CacheAside(fn, avail, entry, read_raises, u, write_raises) ==
    IF u.kind = "no_pandas_ta" THEN CacheOutcome("None", FALSE, entry, FALSE, FALSE)
    ELSE IF avail /\ ~read_raises /\ Loadable(entry)
         THEN CacheOutcome(Loads(entry), TRUE, entry, FALSE, FALSE)
    ELSE LET read_error == avail /\ (read_raises \/ entry = Corrupt)
             data == ProviderResult(u)
         IN  IF data = "None" THEN CacheOutcome("None", FALSE, entry, read_error, FALSE)
             ELSE IF avail /\ ~write_raises
                  THEN CacheOutcome(data, FALSE, Dumps(data), read_error, FALSE)
                  ELSE CacheOutcome(data, FALSE, entry, read_error, avail)

NoCacheCall ==
    [fn |-> "none", out |-> CacheOutcome("None", FALSE, NoEntry, FALSE, FALSE),
     uncached |-> "None"]

CacheOff ==
    /\ redis_available = FALSE
    /\ cache = [fn \in CachedFns |-> NoEntry]
    /\ ca_calls = 0
    /\ ca_last = NoCacheCall

\* __init__ (lines 37-50) pings Redis; entries written by other processes
\* may already be there
CacheInit ==
    /\ redis_available \in BOOLEAN
    /\ cache \in [CachedFns -> {NoEntry, Corrupt} \cup { Dumps(q) : q \in Quotes }]
    /\ ca_calls = 0
    /\ ca_last = NoCacheCall

CacheCall(fn) ==
    /\ ca_calls < MaxCalls
    /\ ca_calls' = ca_calls + 1
    /\ \E read_raises, write_raises \in BOOLEAN, u \in Upstreams(fn) :
          LET out == CacheAside(fn, redis_available, cache[fn], read_raises, u, write_raises)
              off == CacheAside(fn, FALSE, cache[fn], read_raises, u, write_raises)
          IN  /\ cache' = [cache EXCEPT ![fn] = out.entry]
              /\ ca_last' = [fn |-> fn, out |-> out, uncached |-> off.result]
    /\ UNCHANGED redis_available

\* the entry's TTL (60 s, 300 s) runs out
CacheExpire(fn) ==
    /\ cache[fn] # NoEntry
    /\ cache' = [cache EXCEPT ![fn] = NoEntry]
    /\ UNCHANGED << redis_available, ca_calls, ca_last >>

NextCache ==
    /\ comp = "cache"
    /\ \E fn \in CachedFns :
          \/ CacheCall(fn)
          \/ CacheExpire(fn)
    /\ UNCHANGED << comp, schedVars, batchVars, aiVars, fnVars, botVars, supVars, tiVars, awVars,
                    refreshVars, maintVars, starveVars >>

(***************************************************************************)
(* GlobalAnalyst.tracked_tickers: __init__ and refresh_ticker_list         *)
(***************************************************************************)
MaxRows == 3
MaxRefresh == 2
CORE_STOCKS ==
    << "NVDA", "TSLA", "AAPL", "MSFT", "GOOGL", "AMZN", "META", "AMD", "NFLX", "SPY" >>

CoreSet == { CORE_STOCKS[i] : i \in DOMAIN CORE_STOCKS }

\* the symbols followed, in the order sorted() gives strings; "" is a row
\* whose ticker is empty or null
Alphabet ==
    << "AAPL", "ABNB", "AMD", "AMZN", "COIN", "GOOGL", "META", "MSFT", "NFLX", "NVDA",
       "PLTR", "SPY", "TSLA" >>
Rank(t) == CHOOSE i \in 1 .. Len(Alphabet) : Alphabet[i] = t
RowTickers == {"", "NVDA", "SPY", "ABNB", "COIN", "PLTR"}
QueryRows == UNION { [1 .. n -> RowTickers] : n \in 0 .. MaxRows }

\* sorted(S)
RECURSIVE Sorted(_)
Sorted(S) ==
    IF S = {} THEN << >>
    ELSE LET t == CHOOSE x \in S : \A y \in S : Rank(x) <= Rank(y)
         IN  << t >> \o Sorted(S \ {t})

InList(t, all) == t \in all

\* line 127 without the core stocks
AllTickers_db_only(db_tickers) == db_tickers
\* line 127: list(set(db_tickers + self.CORE_STOCKS))
AllTickers(db_tickers) == db_tickers \cup CoreSet

\* lines 119-143 for the rows the query returned; lines 145-150 when it raised
get_user_interest_tickers(query) ==
    IF ~query.ok THEN CORE_STOCKS
    ELSE LET db_tickers == { query.rows[i] : i \in 1 .. Len(query.rows) } \ {""}
             all_tickers == AllTickers(db_tickers)
             core_in_list == SelectSeq(CORE_STOCKS, LAMBDA t : InList(t, all_tickers))
             other_tickers == Sorted(all_tickers \ CoreSet)
         IN  core_in_list \o other_tickers

Queries == [ok : {TRUE}, rows : QueryRows] \cup [ok : {FALSE}, rows : {<< >>}]

RefreshOff ==
    /\ tracked_tickers = << >>
    /\ rf_last = [ok |-> FALSE, rows |-> << >>]
    /\ refreshes = 0

\* __init__ line 85
RefreshInit ==
    /\ rf_last \in Queries
    /\ tracked_tickers = get_user_interest_tickers(rf_last)
    /\ refreshes = 0

\* refresh_ticker_list, lines 152-155
refresh_ticker_list ==
    /\ refreshes < MaxRefresh
    /\ refreshes' = refreshes + 1
    /\ \E query \in Queries :
          /\ rf_last' = query
          /\ tracked_tickers' = get_user_interest_tickers(query)

NextRefresh ==
    /\ comp = "refresh"
    /\ refresh_ticker_list
    /\ UNCHANGED << comp, schedVars, batchVars, aiVars, fnVars, botVars, supVars, tiVars, awVars,
                    cacheVars, maintVars, starveVars >>

(***************************************************************************)
(* MaintenanceService.run_maintenance_loop                                 *)
(***************************************************************************)
MaxIter == 6
max_failures == 5
base_delay == 60

RpcOutcomes == {"ok", "raises"}

\* refresh_materialized_views, lines 17-24: does the call raise to its caller?
\* The rpc sits in a try whose except Exception only logs.
refresh_materialized_views(refresh_trending) == FALSE

\* one iteration of the while loop, lines 35-70: the counter afterwards, the
\* sleep, and which branch slept
loop_body(raised, cf) ==
    IF ~raised
    THEN [consecutive_failures |-> 0, delay |-> 300, branch |-> "success"]
    ELSE IF cf + 1 >= max_failures
         THEN [consecutive_failures |-> 0,
               delay |-> base_delay * Pow2(Min2((cf + 1) - max_failures, 3)),
               branch |-> "circuit breaker"]
         ELSE [consecutive_failures |-> cf + 1,
               delay |-> base_delay * Pow2(Min2((cf + 1) - 1, 2)),
               branch |-> "backoff"]

MaintOff ==
    /\ consecutive_failures = 0
    /\ mt_log = << >>

\* lines 30-32
MaintInit ==
    /\ consecutive_failures = 0
    /\ mt_log = << >>

MaintIteration ==
    /\ Len(mt_log) < MaxIter
    /\ \E refresh_trending \in RpcOutcomes :
          LET step == loop_body(refresh_materialized_views(refresh_trending), consecutive_failures)
          IN  /\ consecutive_failures' = step.consecutive_failures
              /\ mt_log' = Append(mt_log, [rpc |-> refresh_trending, delay |-> step.delay,
                                           branch |-> step.branch,
                                           consecutive_failures |-> step.consecutive_failures])

NextMaint ==
    /\ comp = "maint"
    /\ MaintIteration
    /\ UNCHANGED << comp, schedVars, batchVars, aiVars, fnVars, botVars, supVars, tiVars, awVars,
                    cacheVars, refreshVars, starveVars >>

(***************************************************************************)
(* process_unprocessed_posts_from_db over a posts table that holds one     *)
(* post more than a query selects.  Post ids are in created_at order.  A   *)
(* post of st_failing gets no insight from analyze_signal whenever it is   *)
(* analysed (process_single_post writes nothing and returns False); every  *)
(* other post is analysed and scored the first time it is processed.       *)
(***************************************************************************)
StPosts == 1 .. PollLimit + 1

\* .is_("ai_score", "null") / .eq("ai_score", 0), .order("created_at").limit(10):
\* the k-th row returned is the k-th oldest post with that score
StSelectByScore(score) ==
    LET matching == { p \in StPosts : st_score[p] = score }
    IN  [k \in 1 .. Min2(Cardinality(matching), PollLimit) |->
            CHOOSE p \in matching : Cardinality({ q \in matching : q <= p }) = k]

\* lines 288-294: all_posts without the ids already seen
Dedup(all_posts) ==
    LET kept == SelectSeq([i \in DOMAIN all_posts |-> i],
                          LAMBDA i : \A j \in 1 .. (i - 1) : all_posts[j] # all_posts[i])
    IN  [k \in DOMAIN kept |-> all_posts[kept[k]]]

StarveOff ==
    /\ st_score = [p \in StPosts |-> "null"]
    /\ st_failing = {}
    /\ st_posts = << >>
    /\ st_passed = {}

StarveInit ==
    /\ st_score = [p \in StPosts |-> "null"]
    /\ st_failing \in SUBSET StPosts
    /\ st_posts = << >>
    /\ st_passed = {}

\* lines 272-317: the two queries; an empty result sleeps and polls again
StPollSelect ==
    /\ st_posts = << >>
    /\ \E all_posts \in { StSelectByScore("null") \o StSelectByScore("zero") } :
          st_posts' = Dedup(all_posts)
    /\ UNCHANGED << st_score, st_failing, st_passed >>

\* lines 320-349: one iteration of "for post in posts"
StProcessPost ==
    /\ st_posts # << >>
    /\ LET post_id == Head(st_posts)
       IN  /\ st_passed' = st_passed \cup {post_id}
           /\ st_score' = IF post_id \in st_failing THEN st_score
                          ELSE [st_score EXCEPT ![post_id] = "scored"]
    /\ st_posts' = Tail(st_posts)
    /\ UNCHANGED st_failing

NextStarve ==
    /\ comp = "starve"
    /\ \/ StPollSelect
       \/ StProcessPost
    /\ UNCHANGED << comp, schedVars, batchVars, aiVars, fnVars, botVars, supVars, tiVars, awVars,
                    cacheVars, refreshVars, maintVars >>

DataOff == CacheOff /\ RefreshOff /\ MaintOff /\ StarveOff

(***************************************************************************)
(* The reputation award of process_single_post (lines 187-201), run by two *)
(* callers for the same user: the consumer thread and a /ingest request.   *)
(* Each statement sent to the database is one step.                        *)
(***************************************************************************)
MaxInitialRep == 2
reputation_points == 10
Awarders == {"consumer", "ingest"}

\* line 198
new_rep_points_only(current, points) == points
new_rep(current, points) == current + points

AwOff ==
    /\ profile_rep = 0 /\ initial_rep = 0
    /\ award_log = [a \in Awarders |-> << >>]
    /\ current_rep = [a \in Awarders |-> 0]

AwInit ==
    /\ initial_rep \in { 10 * k : k \in 0 .. MaxInitialRep }
    /\ profile_rep = initial_rep
    /\ award_log = [a \in Awarders |-> << >>]
    /\ current_rep = [a \in Awarders |-> 0]

Logged(a, stmt) == award_log' = [award_log EXCEPT ![a] = Append(@, stmt)]
LastStmt(a) == IF award_log[a] = << >> THEN "none" ELSE award_log[a][Len(award_log[a])]

\* lines 189-192: rpc('increment_reputation') executes: one statement adds the points
AwardRpc(a) ==
    /\ award_log[a] = << >>
    /\ profile_rep' = profile_rep + reputation_points
    /\ Logged(a, "rpc")
    /\ UNCHANGED << initial_rep, current_rep >>

\* line 193: the rpc raises (the function does not exist, the request fails)
AwardRpcRaises(a) ==
    /\ award_log[a] = << >>
    /\ Logged(a, "rpc_raised")
    /\ UNCHANGED << profile_rep, initial_rep, current_rep >>

\* lines 195-196: the fallback reads reputation_score
AwardSelect(a) ==
    /\ LastStmt(a) = "rpc_raised"
    /\ current_rep' = [current_rep EXCEPT ![a] = profile_rep]
    /\ Logged(a, "select")
    /\ UNCHANGED << profile_rep, initial_rep >>

\* lines 197-201: the fallback writes current_rep + reputation_points
AwardUpdate(a) ==
    /\ LastStmt(a) = "select"
    /\ profile_rep' = new_rep(current_rep[a], reputation_points)
    /\ Logged(a, "update")
    /\ UNCHANGED << initial_rep, current_rep >>

\* a statement of the fallback raises: process_single_post's except returns False
AwardFallbackRaises(a) ==
    /\ LastStmt(a) \in {"rpc_raised", "select"}
    /\ Logged(a, "raised")
    /\ UNCHANGED << profile_rep, initial_rep, current_rep >>

NextAward ==
    /\ comp = "award"
    /\ \E a \in Awarders :
          \/ AwardRpc(a)
          \/ AwardRpcRaises(a)
          \/ AwardSelect(a)
          \/ AwardUpdate(a)
          \/ AwardFallbackRaises(a)
    /\ UNCHANGED << comp, schedVars, batchVars, aiVars, fnVars, botVars, supVars, tiVars, dataVars >>

InitAward ==
    comp = "award" /\ SchedOff /\ BatchOff /\ AIOff /\ RiskOff /\ BotOff /\ SupOff /\ TiOff /\ AwInit
    /\ DataOff

SpecAward == InitAward /\ [][NextAward]_vars

InitCache ==
    /\ comp = "cache" /\ SchedOff /\ BatchOff /\ AIOff /\ RiskOff /\ BotOff /\ SupOff /\ TiOff
    /\ AwOff /\ CacheInit /\ RefreshOff /\ MaintOff /\ StarveOff

SpecCache == InitCache /\ [][NextCache]_vars

InitRefresh ==
    /\ comp = "refresh" /\ SchedOff /\ BatchOff /\ AIOff /\ RiskOff /\ BotOff /\ SupOff /\ TiOff
    /\ AwOff /\ CacheOff /\ RefreshInit /\ MaintOff /\ StarveOff

SpecRefresh == InitRefresh /\ [][NextRefresh]_vars

InitMaint ==
    /\ comp = "maint" /\ SchedOff /\ BatchOff /\ AIOff /\ RiskOff /\ BotOff /\ SupOff /\ TiOff
    /\ AwOff /\ CacheOff /\ RefreshOff /\ MaintInit /\ StarveOff

SpecMaint == InitMaint /\ [][NextMaint]_vars

InitStarve ==
    /\ comp = "starve" /\ SchedOff /\ BatchOff /\ AIOff /\ RiskOff /\ BotOff /\ SupOff /\ TiOff
    /\ AwOff /\ CacheOff /\ RefreshOff /\ MaintOff /\ StarveInit

SpecStarve == InitStarve /\ [][NextStarve]_vars

\* the while True loop of the consumer thread keeps running
FairSpecStarve == SpecStarve /\ WF_vars(NextStarve)

InitSched == comp = "sched" /\ SchedInit /\ BatchOff /\ AIOff /\ RiskOff /\ BotOff /\ SupOff /\ TiOff /\ AwOff /\ DataOff

SpecSched == InitSched /\ [][NextSched]_vars

InitBatch ==
    /\ comp = "batch"
    /\ now \in BatchCallTimes /\ spc = "off" /\ now_et = now /\ last_run_date = NoDate
    /\ next_open = NoTime /\ runs = NoRuns /\ seen = NoneSeen /\ runs_day = 0
    /\ refreshed = FALSE
    /\ BatchInit
    /\ AIOff /\ RiskOff /\ BotOff /\ SupOff /\ TiOff /\ AwOff /\ DataOff

SpecBatch == InitBatch /\ [][NextBatch]_vars

InitAI == comp = "ai" /\ SchedOff /\ BatchOff /\ AIInit /\ RiskOff /\ BotOff /\ SupOff /\ TiOff /\ AwOff /\ DataOff

SpecAI == InitAI /\ [][NextAI]_vars
\* every step that can be taken eventually is: the LLM call always returns
FairSpecAI == SpecAI /\ WF_vars(NextAI)
\* only the calling thread is fair: a generate_content call may never return
FairSpecAIThread == SpecAI /\ WF_vars(NextAIThread)

InitRisk == comp = "risk" /\ SchedOff /\ BatchOff /\ AIOff /\ RiskInit /\ BotOff /\ SupOff /\ TiOff /\ AwOff /\ DataOff

InitBot == comp = "bot" /\ SchedOff /\ BatchOff /\ AIOff /\ RiskOff /\ BotInit /\ SupOff /\ TiOff /\ AwOff /\ DataOff

InitParse == comp = "parse" /\ SchedOff /\ BatchOff /\ AIOff /\ ParseInit /\ BotOff /\ SupOff /\ TiOff /\ AwOff /\ DataOff

SpecParse == InitParse /\ [][NextParse]_vars

(***************************************************************************)
(* The save loop of analyze_batch over one parsed response                 *)
(***************************************************************************)
MaxResults == 3
\* keys a response can hold: the chunk's tickers and one the chunk never asked for
ChunkTickers == {"AAPL", "MSFT"}
ResultKeys == ChunkTickers \cup {"ZZZZ"}

\* a JSON object keeps its keys in the order of the text and holds each key once
ResultMaps ==
    { r \in UNION { [1 .. n -> [ticker : ResultKeys, analysis : BatchAnalyses]]
                      : n \in 0 .. MaxResults } :
        \A i, j \in 1 .. Len(r) : r[i].ticker = r[j].ticker => i = j }

\* _save_ticker_insight: TRUE when the row was upserted; its try absorbs a bad
\* score and a failing execute()
save_ticker_insight(ticker, analysis, db_raises) ==
    /\ SavedInsight(ticker, analysis, 0) # Fail
    /\ ticker \notin db_raises

\* what the save loop leaves behind when it stops at entry i
SaveOutcome(upserted, returned, raised_at) ==
    [upserted |-> upserted, returned |-> returned, raised_at |-> raised_at]

\* for ticker, analysis in results.items(): batch_data[ticker] is evaluated in
\* analyze_batch, so its KeyError reaches analyze_batch's except: return {}
\* batch_data.get(ticker): no KeyError
HasMarketData_get(ticker, batch_data) == TRUE
\* line 235: batch_data[ticker] finds the key
HasMarketData(ticker, batch_data) == ticker \in batch_data

RECURSIVE save_loop(_, _, _, _, _)
save_loop(results, i, batch_data, db_raises, upserted) ==
    IF i > Len(results) THEN SaveOutcome(upserted, "results", 0)
    ELSE IF ~HasMarketData(results[i].ticker, batch_data)
         THEN SaveOutcome(upserted, "empty", i)
         ELSE save_loop(results, i + 1, batch_data, db_raises,
                  IF save_ticker_insight(results[i].ticker, results[i].analysis, db_raises)
                  THEN upserted \cup {results[i].ticker}
                  ELSE upserted)

SaveInit ==
    /\ rpc = "off" /\ score_a = 0 /\ score_b = 0
    /\ risk_a = "none" /\ risk_b = "none"
    /\ ptext = NoText /\ presult = Pending
    /\ vdict = EmptyDict /\ vresult = Pending
    /\ sv_in \in [results : ResultMaps,
                  batch_data : SUBSET ChunkTickers \ {{}},
                  db_raises : SUBSET ChunkTickers]
    /\ sv_out = Pending
    /\ bk_in = NoSave /\ bk_out = Pending

SaveCall ==
    /\ sv_out = Pending
    /\ sv_out' = save_loop(sv_in.results, 1, sv_in.batch_data, sv_in.db_raises, {})
    /\ UNCHANGED << rpc, score_a, score_b, risk_a, risk_b, ptext, presult, vdict, vresult,
                    sv_in, bk_in, bk_out >>

NextSave ==
    /\ comp = "save"
    /\ SaveCall
    /\ UNCHANGED << comp, schedVars, batchVars, aiVars, botVars, supVars, tiVars, awVars, dataVars >>

InitSave ==
    comp = "save" /\ SchedOff /\ BatchOff /\ AIOff /\ SaveInit /\ BotOff /\ SupOff /\ TiOff /\ AwOff /\ DataOff

SpecSave == InitSave /\ [][NextSave]_vars

(***************************************************************************)
(* One entry into an except clause of the job consumers                    *)
(***************************************************************************)
MaxCount == 5
Sites == {"poll", "post", "queue"}

\* the errors an except clause of the site can see at error count n.  In the
\* queue loop a job is decoded and fetched only after blpop returned and line
\* 434 set consecutive_errors to 0, so what handling a job raises is counted 1;
\* a higher count is reached by blpop raising in consecutive iterations.
Raisable(site, n) ==
    IF site = "queue"
    THEN { e \in Errors : e.type = "json.JSONDecodeError" => n = 1 }
    ELSE Errors

site_delay(site, e, n) ==
    CASE site = "poll" -> poll_delay(e, n)
      [] site = "post" -> post_delay(e, n)
      [] site = "queue" -> queue_delay(e, n)

BackoffInit ==
    /\ rpc = "off" /\ score_a = 0 /\ score_b = 0
    /\ risk_a = "none" /\ risk_b = "none"
    /\ ptext = NoText /\ presult = Pending
    /\ vdict = EmptyDict /\ vresult = Pending
    /\ sv_in = NoSave /\ sv_out = Pending
    /\ \E site \in Sites, n \in 1 .. MaxCount :
          bk_in \in [site : {site}, n : {n},
                     hi : Raisable(site, n), lo : Raisable(site, n)]
    /\ bk_out = Pending

BackoffCall ==
    /\ bk_out = Pending
    /\ bk_out' = [hi |-> site_delay(bk_in.site, bk_in.hi, bk_in.n),
                  lo |-> site_delay(bk_in.site, bk_in.lo, bk_in.n)]
    /\ UNCHANGED << rpc, score_a, score_b, risk_a, risk_b, ptext, presult, vdict, vresult,
                    sv_in, sv_out, bk_in >>

NextBackoff ==
    /\ comp = "backoff"
    /\ BackoffCall
    /\ UNCHANGED << comp, schedVars, batchVars, aiVars, botVars, supVars, tiVars, awVars, dataVars >>

InitBackoff ==
    comp = "backoff" /\ SchedOff /\ BatchOff /\ AIOff /\ BackoffInit /\ BotOff /\ SupOff /\ TiOff /\ AwOff /\ DataOff

SpecBackoff == InitBackoff /\ [][NextBackoff]_vars

InitValidate ==
    comp = "validate" /\ SchedOff /\ BatchOff /\ AIOff /\ ValidateInit /\ BotOff /\ SupOff /\ TiOff /\ AwOff /\ DataOff

SpecValidate == InitValidate /\ [][NextValidate]_vars

InitSup == comp = "sup" /\ SchedOff /\ BatchOff /\ AIOff /\ RiskOff /\ BotOff /\ SupInit /\ TiOff /\ AwOff /\ DataOff

SpecSup == InitSup /\ [][NextSup]_vars
\* every thread keeps running: sleeps end and in-flight calls return
FairSpecSup == SpecSup /\ \A s \in Services : WF_vars(SvcQuietStep(s))

InitTi == comp = "ti" /\ SchedOff /\ BatchOff /\ AIOff /\ RiskOff /\ BotOff /\ SupOff /\ TiInit /\ AwOff /\ DataOff

SpecTi == InitTi /\ [][NextTi]_vars

SpecBot == InitBot /\ [][NextBot]_vars
SpecBotApi == InitBot /\ [][NextBotApi]_vars

SpecRisk == InitRisk /\ [][NextRisk]_vars

Init ==
    \/ InitSched \/ InitBatch \/ InitAI \/ InitRisk \/ InitParse \/ InitBot \/ InitSup \/ InitTi
    \/ InitValidate \/ InitSave \/ InitBackoff \/ InitAward
    \/ InitCache \/ InitRefresh \/ InitMaint \/ InitStarve
Next ==
    \/ NextSched \/ NextBatch \/ NextAI \/ NextRisk \/ NextParse \/ NextBotApi \/ NextSup \/ NextTi
    \/ NextValidate \/ NextSave \/ NextBackoff \/ NextAward
    \/ NextCache \/ NextRefresh \/ NextMaint \/ NextStarve
Spec == Init /\ [][Next]_vars

(***************************************************************************)
(* Claims about the scheduler                                              *)
(***************************************************************************)
\* The trading day of now_et is over and the loop woke up inside the tolerance
\* window of every target while the market was open.
DayCovered ==
    /\ spc = "closed"
    /\ Weekday(now_et) < 5
    /\ now_et > ReplaceHM(now_et, 16, 0)
    /\ runs_day = DayOf(now_et)
    /\ \A k \in Targets : seen[k]

\* C1: on a trading day on which run_continuous was awake inside the window of
\* each of the three targets (10:00, 12:00, 14:30), analyze_all_tickers was
\* started once for each target: three runs that day.
C1_ThreeRunsADay == DayCovered => \A k \in Targets : runs[k] = 1

\* C2: the market-open gate is true exactly on Monday to Friday from 09:30:00 to
\* 16:00:00 inclusive; 09:29 Monday closed, 09:30 and 16:00 Monday open, 16:01
\* Monday closed, Saturday and Sunday closed.
InTradingWindow(t) ==
    /\ DayOf(t) % 7 \in 0 .. 4
    /\ TimeOfDay(t) \in Mins(570) .. Mins(960)
GateResult == IF spc = "open" THEN TRUE ELSE FALSE
C2_MarketOpenGate ==
    /\ spc \in {"open", "closed"} => (GateResult <=> InTradingWindow(now_et))
    /\ (spc \in {"open", "closed"} /\ DayOf(now_et) = 0) =>
          /\ now_et = Mins(9 * 60 + 29) => spc = "closed"
          /\ now_et = Mins(9 * 60 + 30) => spc = "open"
          /\ now_et = Mins(16 * 60) => spc = "open"
          /\ now_et = Mins(16 * 60 + 1) => spc = "closed"
    /\ (spc \in {"open", "closed"} /\ DayOf(now_et) % 7 \in {5, 6}) => spc = "closed"
C2_Witness ==
    /\ spc = "open" /\ now_et = Mins(16 * 60)

(***************************************************************************)
(* Claims about the batch loop                                             *)
(***************************************************************************)
RECURSIVE Flatten(_)
Flatten(ss) == IF ss = << >> THEN << >> ELSE Head(ss) \o Flatten(Tail(ss))

Range(f) == { f[x] : x \in DOMAIN f }
Distinct(list) == \A x, y \in DOMAIN list : x # y => list[x] # list[y]
CeilDiv(n, b) == (n + b - 1) \div b

\* C3: a run that passes the gate hands analyze_batch ceil(n/b) contiguous batches
\* in list order, each of b tickers except possibly the last; for distinct tickers
\* no ticker is in two batches and together the batches are the input (37 tickers
\* in batches of 10: sizes 10, 10, 10, 7).
C3_BatchPartition ==
    bpc = "done" =>
        /\ Len(batches) = CeilDiv(Len(ticker_list), batch_size)
        /\ \A j \in 1 .. Len(batches) - 1 : Len(batches[j]) = batch_size
        /\ batches # << >> =>
              /\ Len(batches[Len(batches)]) >= 1
              /\ Len(batches[Len(batches)]) <= batch_size
        /\ Flatten(batches) = ticker_list
        /\ Distinct(ticker_list) =>
              /\ \A j, k \in DOMAIN batches :
                    j # k => Range(batches[j]) \cap Range(batches[k]) = {}
              /\ UNION { Range(batches[j]) : j \in DOMAIN batches } = Range(ticker_list)
        /\ (Len(ticker_list) = 37 /\ batch_size = 10) =>
              [j \in DOMAIN batches |-> Len(batches[j])] = << 10, 10, 10, 7 >>
C3_Witness ==
    /\ bpc = "done" /\ Len(ticker_list) = 37 /\ batch_size = 10
    /\ Len(batches) = 4 /\ Len(batches[4]) = 7

(***************************************************************************)
(* C7: an LLM result whose sentiment_score lies outside 0..100 yields a    *)
(* returned insight whose score is clamped into the range (150 becomes     *)
(* 100, -5 becomes 0) rather than the result being rejected.               *)
(***************************************************************************)
ParsedScore == parsed.sentiment_score.val
HasIntScore == Truthy(parsed) /\ parsed.sentiment_score.kind = "int"
C7_ClampOutOfRange ==
    HasIntScore =>
        /\ ParsedScore > 100 =>
               validated # None /\ validated.sentiment_score = 100
        /\ ParsedScore < 0 =>
               validated # None /\ validated.sentiment_score = 0

(***************************************************************************)
(* C8: _parse_llm_response recovers the JSON object from well-formed JSON  *)
(* (by the first strategy), from JSON inside a fenced code block, from     *)
(* JSON embedded in prose and from JSON with a trailing comma; it returns  *)
(* null only when none of the four strategies can decode the text.         *)
(***************************************************************************)
NoStrategyDecodes(t) ==
    /\ Strategy1(t) = Fail /\ Strategy2(t) = Fail
    /\ Strategy3(t) = Fail /\ Strategy4(t) = Fail
C8_ParseRecovers ==
    presult # Pending =>
        /\ ptext.toks = WellFormed => presult = ptext.obj /\ Strategy1(ptext) = ptext.obj
        /\ ptext.toks \in {FencedJson, FencedPlain, FencedInProse} => presult = ptext.obj
        /\ ptext.toks = InProse => presult = ptext.obj
        /\ ptext.toks = TrailingComma => presult = ptext.obj
        /\ presult = None => ptext.toks = << >> \/ NoStrategyDecodes(ptext)

(***************************************************************************)
(* C9: _calculate_risk_from_score is a function of the score alone and is  *)
(* monotonically non-increasing in risk (Low < Medium < High < Extreme)    *)
(* as the score increases over 0..100.                                     *)
(***************************************************************************)
RiskRank(r) ==
    CASE r = "Low" -> 1
      [] r = "Medium" -> 2
      [] r = "High" -> 3
      [] r = "Extreme" -> 4
C9_RiskMonotone ==
    rpc = "done" =>
        /\ risk_a \in VALID_RISK_LEVELS /\ risk_b \in VALID_RISK_LEVELS
        /\ score_a = score_b => risk_a = risk_b
        /\ score_a <= score_b => RiskRank(risk_a) >= RiskRank(risk_b)
C9_Witness ==
    /\ rpc = "done" /\ score_a < score_b
    /\ risk_a = "High" /\ risk_b = "Low"

(***************************************************************************)
(* C10: analyze_signal invokes the LLM at most 2 times per call, retrying  *)
(* at once after a timeout, an API error, a parse failure or a validation  *)
(* failure; it returns null once both attempts have failed, and it always  *)
(* returns.                                                                *)
(***************************************************************************)
C10_AtMostTwoCalls ==
    /\ llm_calls <= 2
    /\ apc = "call" => llm_calls < 2
    /\ apc = "done" /\ validated = None => result = None /\ llm_calls = 2
    /\ apc = "done" /\ validated # None => result = validated
CallReturned == proc' # proc
C4_InvalidTickerStep ==
    CallReturned /\ last'.market = "null" =>
        /\ posts' = [posts EXCEPT ![last'.post] =
                        IF last'.updated
                        THEN [@ EXCEPT !.ai_score = -1, !.ai_summary = "Invalid Ticker"]
                        ELSE @]
        /\ insights' = insights
        /\ reputation' = reputation
        /\ ~last'.upserted
        /\ last'.ret = FALSE
C4_InvalidTicker == [][C4_InvalidTickerStep]_vars
C4_Witness ==
    /\ last.market = "null" /\ last.updated /\ ~last.ret
    /\ posts[last.post].ai_score = -1
    /\ posts[last.post].ai_summary = "Invalid Ticker"
    /\ insights[TickerOf(last.post)] = NoRow

(***************************************************************************)
(* C5: for every insight analyze_signal returns, risk_level is the risk of *)
(* the score bands at the final sentiment_score, whatever risk the model   *)
(* proposed (score 92 gives "Low"), and the ticker_insights upsert of      *)
(* process_single_post for that ticker carries that score and that risk.   *)
(***************************************************************************)
BandRisk(score) ==
    IF score >= 80 THEN "Low" ELSE IF score >= 40 THEN "Medium" ELSE "High"
\* every LLM text of the model that yields an insight
AttemptsBanded ==
    \A t \in LLMTexts :
        AttemptResult(t) # None =>
            AttemptResult(t).risk_level = BandRisk(AttemptResult(t).sentiment_score)
C5_RiskFromScore ==
    /\ AttemptsBanded
    /\ \A ins \in BotInsights \ {None} :
          /\ ins.risk_level = BandRisk(ins.sentiment_score)
          /\ ins.sentiment_score = 92 => ins.risk_level = "Low"
    /\ last.insight # None =>
          /\ last.insight \in BotInsights
          /\ last.upserted =>
                /\ insights[TickerOf(last.post)].ai_score = last.insight.sentiment_score
                /\ insights[TickerOf(last.post)].ai_risk = BandRisk(last.insight.sentiment_score)
C5_Witness ==
    /\ last.insight # None /\ last.upserted
    /\ last.insight.sentiment_score = 92
    /\ insights[TickerOf(last.post)].ai_score = 92
    /\ insights[TickerOf(last.post)].ai_risk = "Low"

(***************************************************************************)
(* C6: each post is processed at most once by the Job Consumers: once a    *)
(* consumer has run process_single_post for a post, no later queue pop and *)
(* no later database poll causes that post to be processed again.          *)
(***************************************************************************)
C6_AtMostOnce == \A p \in PostIds : proc[p]["consumer"] <= 1

(***************************************************************************)
(* C11: analyze_signal returns (with null) even when the LLM call never    *)
(* completes: a hung generate_content call cannot keep the calling thread  *)
(* blocked past the timeout of each attempt.                               *)
(***************************************************************************)
C11_ReturnsDespiteHang == <>(apc = "done")

(***************************************************************************)
(* C12: whenever the job queue (Redis) is unreachable, at startup or after *)
(* a connectivity error during operation, ResponseBotService ends up       *)
(* running the polling consumer; it runs the queue consumer only while the *)
(* queue is reachable.                                                     *)
(***************************************************************************)
C12_PollingWhenUnreachable == ~redis_ok => bmode = "poll"

(***************************************************************************)
(* C13: after stop_all_services sets the shared stop flag, every started   *)
(* service thread observes the flag at its next loop boundary and          *)
(* eventually leaves its loop once any in-flight call has returned.        *)
(***************************************************************************)
ThreadGone(s) == svc[s] \in {"nothread", "exited", "crashed"}
C13_StopObserved == stop_event ~> (\A s \in Services : ThreadGone(s))

(***************************************************************************)
(* C14: an exception raised during one iteration of a supervised service's *)
(* loop never ends that service's thread: the failure is logged and the    *)
(* loop goes on to a later iteration.                                      *)
(***************************************************************************)
C14_ExceptionKeepsThread == \A s \in Services : svc[s] # "crashed"

(***************************************************************************)
(* C15: if the market is closed when analyze_all_tickers is called, the    *)
(* entire run is skipped: no macro-context fetch, no market-data fetch, no *)
(* AI request and no ticker_insights upsert is performed.                  *)
(***************************************************************************)
C15_ClosedRunSkipped ==
    (comp = "batch" /\ ~is_market_open(now)) =>
        /\ bpc \in {"start", "skipped"}
        /\ macro_fetches = 0
        /\ effects = {}
        /\ batches = << >>
        /\ batch_result = NoBatchCall
        /\ sleeps = 0

C15_Witness ==
    /\ comp = "batch" /\ ~is_market_open(now)
    /\ bpc = "skipped"
    /\ Len(ticker_list) = 37 /\ batch_size = 10 /\ analyst_ai

(***************************************************************************)
(* C17: if a chunk's AI request raises or its response cannot be parsed,   *)
(* analyze_batch upserts nothing for that chunk and returns an empty       *)
(* result, the chunk is not retried, and analyze_all_tickers goes on to    *)
(* process every remaining chunk of the run.                               *)
(***************************************************************************)
\* an analyze_batch call that failed this way
C17_FailedCallStep ==
    (batches' # batches /\ ChunkFailure(batch_result')) =>
        /\ batch_result'.returned = "empty"
        /\ batch_result'.upserts = 0
        /\ "upsert" \in effects' => "upsert" \in effects
        /\ bpc' = IF bat_i + batch_size < Len(ticker_list) THEN "pace" ELSE "done"

\* whatever the calls returned, the chunks handed to analyze_batch so far are
\* the first chunks of the list, each once, and a finished run has handed over
\* all of them
C17_EveryChunkOnce ==
    comp = "batch" =>
        /\ \A j \in DOMAIN batches :
              batches[j] = BatchSlice(ticker_list, (j - 1) * batch_size, batch_size)
        /\ bpc = "done" => Len(batches) = CeilDiv(Len(ticker_list), batch_size)

C17_ChunkFailureIsolated == [][C17_FailedCallStep]_vars /\ [] C17_EveryChunkOnce

C17_Witness ==
    /\ bpc = "done" /\ chunk_failed
    /\ Len(batches) = 4
    /\ batch_result.kind = "saved"
    /\ effects = {"market_data", "ai_request", "upsert"}

(***************************************************************************)
(* C16: within one calendar date, run_continuous never starts a second     *)
(* analysis run for a target time it has already run for, however many     *)
(* times the loop wakes up inside that target's 5-minute tolerance window. *)
(***************************************************************************)
C16_NoSecondRun == \A k \in Targets : runs[k] <= 1

\* the loop is awake inside a tolerance window on the date of a run it has made,
\* with the marker set
C16_Witness ==
    /\ spc = "open"
    /\ runs_day = DayOf(now_et)
    /\ last_run_date = DayOf(now_et)
    /\ Abs(now_et - NextRun(now_et)) < Mins(5)
    /\ \E k \in Targets : runs[k] = 1 /\ seen[k]

(***************************************************************************)
(* C18: if the ticker_insights upsert fails after the post update has      *)
(* succeeded, the post keeps its analysis fields (nothing is rolled back), *)
(* the failure is only logged, and process_single_post still completes the *)
(* job as processed.                                                       *)
(***************************************************************************)
\* a call whose post update succeeded and whose ticker_insights upsert failed
UpsertFailedStep ==
    CallReturned /\ last'.insight # None /\ last'.updated /\ ~last'.upserted

PostKeepsAnalysis ==
    /\ posts' = [posts EXCEPT ![last'.post] =
                    PostRow(last'.insight.sentiment_score, last'.insight.risk_level,
                            last'.insight.user_thesis, "AI Analysis")]
    /\ insights' = insights

\* as stated: the call returns True
C18_UpsertFailureProcessed ==
    [][UpsertFailedStep => (PostKeepsAnalysis /\ last'.ret)]_vars

\* as the code has it: the call goes on to the reputation award and returns
\* True exactly when the award that is due is made; when the award raises too
\* it returns False, the post still keeping its analysis
C18_UpsertFailureNotRolledBack ==
    [][UpsertFailedStep =>
          /\ PostKeepsAnalysis
          /\ last'.ret <=>
                reputation' = [reputation EXCEPT ![UserOf(last'.post)] =
                                  @ + ReputationPoints(last'.insight)]]_vars

C18_Witness ==
    /\ last.insight # None /\ last.updated /\ ~last.upserted /\ last.ret
    /\ posts[last.post].ai_score = last.insight.sentiment_score
    /\ posts[last.post].ai_summary = "AI Analysis"
    /\ insights[TickerOf(last.post)] = NoRow

(***************************************************************************)
(* C19: when analyze_signal returns null for a job (retries exhausted),    *)
(* process_single_post writes nothing: the post row, the ticker_insights   *)
(* table and the user's reputation are all left unchanged.                 *)
(***************************************************************************)
NoInsightStep ==
    CallReturned /\ ai_available /\ last'.market = "data" /\ last'.insight = None

C19_NullInsightWritesNothing ==
    [][NoInsightStep =>
          /\ posts' = posts
          /\ insights' = insights
          /\ reputation' = reputation
          /\ ~last'.updated /\ ~last'.upserted /\ ~last'.ret]_vars

\* a post that has a market-data record and an available AI service, still
\* unanalysed after a call that got no insight
C19_Witness ==
    /\ ai_available /\ last.market = "data" /\ last.insight = None /\ last.post # 0
    /\ posts[last.post] = NewPost
    /\ None \in BotInsights

(***************************************************************************)
(* C20: for every interleaving of ticker_insights upserts for the same     *)
(* ticker issued concurrently by the Batch Scheduler and the Job           *)
(* Consumers, the table ends with exactly one row for that ticker, and     *)
(* that row's AI fields (ai_score, ai_signal, ai_risk, ai_summary) are     *)
(* those of the upsert that executed last.                                 *)
(***************************************************************************)
RowsOf(t) == { r \in ti_rows : r.ticker = t }
C20_LastWriteWins ==
    \A t \in Tickers :
        IF last_upsert[t] = NoUpsert
        THEN RowsOf(t) = {}
        ELSE /\ Cardinality(RowsOf(t)) = 1
             /\ \A r \in RowsOf(t), c \in AIColumns : r[c] = last_upsert[t].cols[c]

\* both writers have upserted the same ticker, the consumer last: the AI fields
\* are the consumer's, the fundamentals still the scheduler's; and the scheduler
\* holds an older row for that ticker that it has yet to send
C20_Witness ==
    \E t \in Tickers :
        /\ last_upsert[t].writer = "consumer"
        /\ \E r \in RowsOf(t) : r.roe = "market data" /\ r.ai_score = 92
        /\ wpc["scheduler"] # Idle
        /\ wpc["scheduler"].ticker = t

(***************************************************************************)
(* C21: upserting the same Ticker Insight Record (same ticker, identical   *)
(* content) twice leaves exactly one row for that ticker, and after the    *)
(* second upsert every field of that row is unchanged except updated_at.   *)
(***************************************************************************)
\* the table executes, for ticker t, an upsert with the content of the upsert
\* it executed last for t
SameUpsertAgain(t) ==
    /\ last_upsert'[t] # last_upsert[t]
    /\ last_upsert'[t].again

C21_IdempotentStep ==
    \A t \in Tickers :
        SameUpsertAgain(t) =>
            /\ Cardinality({ r \in ti_rows' : r.ticker = t }) = 1
            /\ \A r \in RowsOf(t), q \in { x \in ti_rows' : x.ticker = t } :
                  /\ \A c \in Columns \ {"updated_at"} : q[c] = r[c]
                  /\ q.updated_at = last_upsert'[t].cols.updated_at

C21_UpsertIdempotent == [][C21_IdempotentStep]_vars

\* the scheduler's row for a ticker executed twice, the second built later
C21_Witness ==
    \E t \in Tickers :
        /\ last_upsert[t].writer = "scheduler" /\ last_upsert[t].again
        /\ \E r \in RowsOf(t) :
              /\ r.updated_at = 2 /\ r.ai_score = 75 /\ r.roe = "market data"
        /\ Cardinality(ti_rows) = 1

C23_StatusSnapshot ==
    sup_pc = "running" =>
        /\ DOMAIN get_service_status = Services
        /\ \A s \in Services :
              IF svc[s] = "nothread"
              THEN /\ ~get_service_status[s].initialized
                   /\ ~get_service_status[s].thread_alive
                   /\ get_service_status[s].error = "init error"
              ELSE /\ get_service_status[s].initialized
                   /\ get_service_status[s].thread_alive
                         = (svc[s] \in {"top", "working", "sleeping"})
                   /\ get_service_status[s].error = "none"

\* the first service failed, a later one started and has since died, a third
\* is alive
C23_Witness ==
    /\ sup_pc = "running"
    /\ svc["MarketMaker"] = "nothread"
    /\ svc["GlobalAnalyst"] = "crashed"
    /\ svc["MaintenanceService"] = "working"
    /\ ~get_service_status["MarketMaker"].initialized
    /\ get_service_status["GlobalAnalyst"].initialized
    /\ ~get_service_status["GlobalAnalyst"].thread_alive
    /\ get_service_status["MaintenanceService"].thread_alive

(***************************************************************************)
(* C24: in a run over k >= 1 chunks, analyze_all_tickers sleeps the fixed  *)
(* 20-second pacing interval exactly k - 1 times, once after every chunk   *)
(* except the last, whether the chunks succeeded or failed.                *)
(***************************************************************************)
C24_PacingSleeps ==
    comp = "batch" =>
        /\ slept_seconds = 20 * sleeps
        /\ bpc = "loop" => sleeps = Len(batches)
        /\ bpc = "pace" => sleeps = Len(batches) - 1
        /\ (bpc = "done" /\ Len(batches) >= 1) =>
              /\ sleeps = Len(batches) - 1
              /\ Len(batches) = CeilDiv(Len(ticker_list), batch_size)

\* 4 chunks, 3 sleeps, with a failed chunk and a saved last chunk
C24_Witness ==
    /\ bpc = "done" /\ Len(batches) = 4 /\ sleeps = 3 /\ slept_seconds = 60
    /\ chunk_failed /\ batch_result.kind = "saved"
    /\ Len(ticker_list) = 20 /\ batch_size = 5

(***************************************************************************)
(* Claims about the save loop of analyze_batch                             *)
(***************************************************************************)
\* entry i of the parsed response can be saved on its own: its ticker has market
\* data, its score converts to an integer and its upsert statement succeeds
Savable(i) ==
    /\ sv_in.results[i].ticker \in sv_in.batch_data
    /\ sv_in.results[i].analysis.score # BadScore
    /\ sv_in.results[i].ticker \notin sv_in.db_raises

\* C25: for any result map, every per-ticker result that can be saved on its own
\* is upserted, whatever happened while the other results of the chunk were handled.
C25_SavesIndependent ==
    (comp = "save" /\ sv_out # Pending) =>
        \A i \in 1 .. Len(sv_in.results) :
            Savable(i) => sv_in.results[i].ticker \in sv_out.upserted

\* a result keyed by a ticker without market data came before a savable one
C25_Witness ==
    /\ comp = "save" /\ sv_out # Pending
    /\ sv_out.returned = "empty" /\ sv_out.raised_at = 1
    /\ Len(sv_in.results) = 3
    /\ Savable(2) /\ Savable(3)
    /\ sv_out.upserted = {}

\* failures inside _save_ticker_insight are isolated: when every key of the
\* response has market data, each savable result is upserted
C25_SaveFailuresIsolated ==
    (comp = "save" /\ sv_out # Pending
       /\ \A i \in 1 .. Len(sv_in.results) : sv_in.results[i].ticker \in sv_in.batch_data) =>
        /\ sv_out.returned = "results"
        /\ \A i \in 1 .. Len(sv_in.results) :
              Savable(i) => sv_in.results[i].ticker \in sv_out.upserted

(***************************************************************************)
(* Claims about the polling consumer                                       *)
(***************************************************************************)
\* the step is the two queries of a poll that found posts
PollFound == bmode = "poll" /\ cpc = "poll" /\ cpc' = "posts"

\* the step is the polling loop passing post p to process_single_post
PollPasses(p) ==
    bmode = "poll" /\ cpc = "posts" /\ proc'[p]["consumer"] = proc[p]["consumer"] + 1

C26_SentinelWithIngest ==
    [][\A p \in PostIds :
          posts[p].ai_score = -1 =>
              /\ PollFound => \A i \in 1 .. Len(todo') : todo'[i] # p
              /\ PollPasses(p) => proc[p]["ingest"] > 0
              /\ (proc'[p] = proc[p]) => posts'[p].ai_score = -1]_vars

PollEmpty == bmode = "poll" /\ cpc = "poll" /\ cpc' = "poll" /\ consecutive_errors' = 0

\* the step is the end of a poll's iteration over the posts it found
PollOver == bmode = "poll" /\ cpc = "posts" /\ cpc' = "poll"

\* C27: the wait before the next poll is 10 s after a poll that processed at
\* least one post successfully; after an empty poll it is 60 s, and 120 s when
\* the poll is the 11th or a later one in a row that found nothing; the
\* empty-poll counter grows by one per empty poll and is 0 once a poll finds posts.
C27_AdaptivePolling ==
    [][/\ (PollOver /\ processed_count > 0) => wait' = 10
       /\ PollEmpty =>
             /\ no_posts_count' = Min2(no_posts_count + 1, MaxIdlePolls)
             /\ no_posts_count + 1 <= 10 => wait' = 60
             /\ no_posts_count + 1 > 10 => wait' = 120
       /\ PollFound => no_posts_count' = 0]_vars

\* posts were processed in an earlier poll, then eleven polls in a row found nothing
C27_Witness ==
    /\ bmode = "poll" /\ cpc = "poll"
    /\ processed_count > 0
    /\ no_posts_count = 11 /\ wait = 120
    /\ \E p \in PostIds : posts[p].ai_score > 0

(***************************************************************************)
(* Claims about the backoff of the job consumers                           *)
(***************************************************************************)
\* the three kinds of error the tiers are named after, told apart by what the
\* error is: a 429 or quota message, a timeout or connection failure, neither
RateLimitError(e) == e.type = "Exception" /\ "429" \in e.msg
NetworkError(e) ==
    /\ "429" \notin e.msg
    /\ \/ e.type = "redis.ConnectionError"
       \/ e.type = "Exception" /\ ("timeout" \in e.msg \/ "connection" \in e.msg)
OtherError(e) ==
    /\ e.type # "redis.ConnectionError"
    /\ e.msg \cap {"429", "timeout", "connection"} = {}

\* C28: at each site and for the same error count, a rate-limit error is given a
\* delay at least that of a timeout or connection error, which is given a delay
\* at least that of any other error.
C28_TieredBackoff ==
    (comp = "backoff" /\ bk_out # Pending) =>
        /\ (RateLimitError(bk_in.hi) /\ NetworkError(bk_in.lo)) => bk_out.hi >= bk_out.lo
        /\ (NetworkError(bk_in.hi) /\ OtherError(bk_in.lo)) => bk_out.hi >= bk_out.lo
        /\ (RateLimitError(bk_in.hi) /\ OtherError(bk_in.lo)) => bk_out.hi >= bk_out.lo

\* the queue loop at its second consecutive error: a quota error waits 60 s
\* where a lost Redis connection waits 8 s
C28_Witness ==
    /\ comp = "backoff" /\ bk_out # Pending
    /\ bk_in.site = "queue" /\ bk_in.n = 2
    /\ RateLimitError(bk_in.hi) /\ bk_in.lo.type = "redis.ConnectionError"
    /\ NetworkError(bk_in.lo)
    /\ bk_out.hi = 60 /\ bk_out.lo = 8

\* In the queue loop a failed job is always counted as the first error: the
\* counter was set to 0 when blpop returned the job.
JobErrorsCountedOne ==
    (comp = "bot" /\ failed_job.run > 0) =>
        /\ consecutive_errors = 1
        /\ wait = queue_delay(failed_job.err, 1)

\* the cap of the except clause that handles e in the queue loop
queue_cap(e) ==
    IF e.type = "json.JSONDecodeError" THEN 10
    ELSE IF "429" \in e.msg THEN 60
    ELSE IF "timeout" \in e.msg THEN 30
    ELSE 10

\* the step is the queue loop failing a job right after failing the job before
\* it with the same error
SecondJobError ==
    /\ comp = "bot" /\ bmode = "queue"
    /\ failed_job.run = 1 /\ failed_job'.run = 2
    /\ failed_job'.err = failed_job.err

\* C29: in the queue consumer the second of two consecutive failed jobs waits
\* longer than the first, unless the first already waited the cap.
C29_FailedJobBackoffGrows ==
    [][(SecondJobError /\ wait < queue_cap(failed_job.err)) => wait' > wait]_vars

\* two jobs in a row fail to decode and both wait 4 s, counted as error 1
C29_SameWaitTwice ==
    /\ comp = "bot" /\ bmode = "queue"
    /\ failed_job.run = 2 /\ failed_job.err.type = "json.JSONDecodeError"
    /\ consecutive_errors = 1 /\ wait = 4

(***************************************************************************)
(* Claims about the reputation award                                       *)
(***************************************************************************)
\* the awards whose write reached the table
Committed == { a \in Awarders : LastStmt(a) \in {"rpc", "update"} }
AwardOver(a) == LastStmt(a) \in {"rpc", "update", "raised"}

\* C30: every award begins with the increment_reputation rpc and reads the
\* profile only after that rpc raised; the score never exceeds the initial value
\* plus 10 per award written, two awards through the rpc add 20, and with the
\* fallback in play the score can be anything from plus 10 up to plus 20.
C30_AwardPaths ==
    comp = "award" =>
        /\ \A a \in Awarders :
              /\ award_log[a] # << >> => award_log[a][1] \in {"rpc", "rpc_raised"}
              /\ \A i \in 1 .. Len(award_log[a]) :
                    award_log[a][i] \in {"select", "update", "raised"} =>
                        award_log[a][1] = "rpc_raised"
        /\ profile_rep <= initial_rep + 10 * Cardinality(Committed)
        /\ Committed # {} => profile_rep >= initial_rep + 10
        /\ (\A a \in Awarders : LastStmt(a) = "rpc") => profile_rep = initial_rep + 20

\* both awards took the fallback, both read before either wrote, and one
\* increment is lost
C30_Witness ==
    /\ comp = "award"
    /\ \A a \in Awarders : award_log[a] = << "rpc_raised", "select", "update" >>
    /\ \A a \in Awarders : current_rep[a] = initial_rep
    /\ profile_rep = initial_rep + 10

(***************************************************************************)
(* Claims about the market data cache                                      *)
(***************************************************************************)
\* C31: a call of get_price_context or get_technical_analysis that met an error
\* on its cache read or its cache write returns what the same call returns
\* with redis_available false: the provider's data, or None.
C31_CacheErrorsHarmless ==
    (comp = "cache" /\ (ca_last.out.read_error \/ ca_last.out.write_error)) =>
        /\ ca_last.out.result = ca_last.uncached
        /\ ~ca_last.out.hit

\* a call whose cache read failed on an entry that holds other data, and whose
\* cache write failed too, returned the provider's data and left the entry
C31_Witness ==
    /\ comp = "cache" /\ redis_available
    /\ ca_last.fn = "get_price_context"
    /\ ca_last.out.read_error /\ ca_last.out.write_error
    /\ ca_last.out.result = "quote_b" /\ ca_last.uncached = "quote_b"
    /\ cache["get_price_context"] = Dumps("quote_a")

(***************************************************************************)
(* Claims about the rows of ticker_insights                                *)
(***************************************************************************)
WellTyped(row) ==
    /\ row.ai_score \in 0 .. 100
    /\ row.ai_risk \in {"Low", "Medium", "High", "Extreme"}
    /\ row.ai_signal = get_signal_label(row.ai_score)

\* C32: every row of ticker_insights, whichever writer upserted it, has ai_score
\* within 0..100, ai_risk one of Low, Medium, High, Extreme, and ai_signal the
\* signal label of its ai_score.
C32_RowsWellTyped ==
    comp = "ti" => \A r \in ti_rows : WellTyped(r)

\* what does hold: every row's ai_signal is the label of its ai_score, and the
\* rows the job consumer upserts, built from a validated insight, are well typed
C32_SignalMatchesAndBotRows ==
    comp = "ti" =>
        /\ \A r \in ti_rows : r.ai_signal = get_signal_label(r.ai_score)
        /\ \A t \in Tickers :
              last_upsert[t].writer = "bot" => WellTyped(last_upsert[t].cols)

\* the batch path stored the model's score of 150 and its risk word as they came
C32_RawBatchRow ==
    /\ comp = "ti"
    /\ \E r \in ti_rows :
          r.ai_score = 150 /\ r.ai_risk = "Moderate" /\ r.ai_signal = "Strong Buy"

(***************************************************************************)
(* Claims about tracked_tickers                                            *)
(***************************************************************************)
\* C33: after construction and after every refresh_ticker_list, whether the
\* query returned rows or raised, tracked_tickers holds every core stock, holds
\* no ticker twice, starts with the core stocks in CORE_STOCKS order and goes
\* on with the other tickers in sorted order.
C33_TrackedTickersShape ==
    comp = "refresh" =>
        /\ Len(tracked_tickers) >= Len(CORE_STOCKS)
        /\ \A k \in 1 .. Len(CORE_STOCKS) : tracked_tickers[k] = CORE_STOCKS[k]
        /\ \A i, j \in 1 .. Len(tracked_tickers) :
              i # j => tracked_tickers[i] # tracked_tickers[j]
        /\ \A i, j \in Len(CORE_STOCKS) + 1 .. Len(tracked_tickers) :
              i < j => Rank(tracked_tickers[i]) < Rank(tracked_tickers[j])
        /\ \A i \in Len(CORE_STOCKS) + 1 .. Len(tracked_tickers) :
              tracked_tickers[i] # ""

\* the second refresh read a core stock and two other tickers out of order
C33_Witness ==
    /\ comp = "refresh" /\ refreshes = 2
    /\ rf_last.ok /\ rf_last.rows = << "PLTR", "NVDA", "COIN" >>
    /\ tracked_tickers = CORE_STOCKS \o << "COIN", "PLTR" >>

(***************************************************************************)
(* Claims about next_open                                                  *)
(***************************************************************************)
\* the next instant after t at which is_market_open is true is x
NextGate(t, x) ==
    /\ x > t
    /\ is_market_open(x)
    /\ \A y \in (t + 1) .. (x - 1) : ~is_market_open(y)

\* C34: whenever run_continuous finds the market closed, next_open is strictly
\* in the future and is the earliest upcoming Monday-to-Friday 09:30, the next
\* instant at which is_market_open becomes true.
C34_NextOpenIsNextGate ==
    (comp = "sched" /\ spc = "closed") =>
        /\ Weekday(next_open) < 5
        /\ NextGate(now_et, next_open)

\* what does hold: next_open is a 09:30 strictly in the future, and it is the
\* next opening unless the market was found closed on a Friday after 16:00
C34_NextOpenButFridayEvening ==
    (comp = "sched" /\ spc = "closed") =>
        /\ next_open > now_et
        /\ next_open = ReplaceHM(next_open, 9, 30)
        /\ (Weekday(now_et) = 4 /\ HourOf(now_et) >= 16) \/ NextGate(now_et, next_open)

\* found closed on a Friday evening: next_open is Saturday 09:30
C34_FridayEvening ==
    /\ comp = "sched" /\ spc = "closed"
    /\ Weekday(now_et) = 4 /\ HourOf(now_et) >= 16
    /\ Weekday(next_open) = 5
    /\ ~is_market_open(next_open)

(***************************************************************************)
(* Claims about run_maintenance_loop                                       *)
(***************************************************************************)
\* C35: when a materialized-view refresh fails, run_maintenance_loop counts it
\* as a consecutive failure and retries after an exponential backoff (60 s,
\* 120 s, 240 s); after 5 consecutive failures it applies the circuit-breaker
\* wait and resets the counter; only a successful refresh is followed by the
\* 5-minute wait.
C35_FailedRefreshBacksOff ==
    comp = "maint" =>
        \A i \in 1 .. Len(mt_log) :
            mt_log[i].rpc = "raises" =>
                /\ mt_log[i].branch \in {"backoff", "circuit breaker"}
                /\ mt_log[i].branch = "backoff" =>
                      /\ mt_log[i].consecutive_failures >= 1
                      /\ mt_log[i].delay \in {60, 120, 240}
                /\ mt_log[i].delay # 300

\* what the loop does: every iteration, failed refresh or not, leaves the
\* counter at 0 and sleeps 300 s
C35_EveryIterationSleeps300 ==
    comp = "maint" =>
        /\ consecutive_failures = 0
        /\ \A i \in 1 .. Len(mt_log) : mt_log[i].delay = 300 /\ mt_log[i].branch = "success"

\* five refreshes in a row failed
C35_FiveFailures ==
    /\ comp = "maint" /\ Len(mt_log) = 5
    /\ \A i \in 1 .. 5 : mt_log[i].rpc = "raises"

(***************************************************************************)
(* Claims about the reputation awarded per post                            *)
(***************************************************************************)
\* C36: a user's reputation is increased at most once, by 10 points, for any
\* given post, across every processing of that post by the queue consumer,
\* the polling consumer and the /ingest endpoint.
C36_AwardedOncePerPost ==
    comp = "bot" => \A p \in PostIds : awarded[p] <= 1

\* what holds: every call of process_single_post writes at most one award of
\* 10 points, and the awards of a post are at most its calls
C36_OneAwardPerCall ==
    [][comp = "bot" =>
        /\ \A p \in PostIds :
              /\ awarded'[p] - awarded[p] \in {0, 1}
              /\ awarded'[p] # awarded[p] => proc'[p] # proc[p]
              /\ awarded'[p] <= proc'[p]["consumer"] + proc'[p]["ingest"]
        /\ \A u \in Users :
              reputation'[u] - reputation[u]
                  = 10 * SumOver([p \in PostIds |-> awarded'[p] - awarded[p]], PostIds)]_vars

\* the consumer processed one post twice and the user was awarded both times
C36_AwardedTwice ==
    /\ comp = "bot"
    /\ \E p \in PostIds :
          /\ awarded[p] = 2 /\ proc[p]["consumer"] = 2 /\ proc[p]["ingest"] = 0
          /\ reputation[UserOf(p)] >= 20

(***************************************************************************)
(* Claims about starvation in polling mode                                 *)
(***************************************************************************)
\* C37: in polling mode every post that lacks analysis is eventually passed
\* to process_single_post, even when older unprocessed posts keep failing
\* analysis: no post is starved by the selection of the 10 oldest
\* unprocessed rows.
C37_NoStarvation ==
    comp = "starve" => <>(st_passed = StPosts)

\* what holds: every post is passed to process_single_post when fewer than
\* 10 posts older than it keep failing
C37_PassedUnlessTenOlderFail ==
    \A p \in StPosts :
        (comp = "starve" /\ Cardinality({ q \in st_failing : q < p }) < PollLimit)
            => <>(p \in st_passed)

\* the ten oldest posts keep failing and have all been processed; the newest
\* post is unprocessed and is not in the list the poll selected
C37_TenOlderFailing ==
    /\ comp = "starve"
    /\ st_failing = 1 .. PollLimit
    /\ st_passed = 1 .. PollLimit
    /\ st_score[PollLimit + 1] = "null"
    /\ Len(st_posts) = PollLimit

(***************************************************************************)
(* Claims about the tickers analyze_batch writes                           *)
(***************************************************************************)
\* C38: analyze_batch never upserts a ticker_insights row for a ticker that
\* was not in the requested chunk with available market data, whatever keys
\* the model's response map contains.
C38_OnlyChunkTickersUpserted ==
    (comp = "save" /\ sv_out # Pending) =>
        /\ sv_out.upserted \subseteq sv_in.batch_data
        /\ \A i \in 1 .. Len(sv_in.results) :
              sv_in.results[i].ticker \notin sv_in.batch_data =>
                  /\ sv_out.returned = "empty"
                  /\ sv_out.raised_at <= i

\* the response held a key the chunk never asked for between two chunk
\* tickers that both have market data: the first was saved, nothing after it
C38_Witness ==
    /\ comp = "save" /\ sv_out # Pending
    /\ Len(sv_in.results) = 3
    /\ sv_in.results[1].ticker = "AAPL"
    /\ sv_in.results[2].ticker = "ZZZZ"
    /\ sv_in.results[3].ticker = "MSFT"
    /\ sv_in.batch_data = ChunkTickers
    /\ sv_out.upserted = {"AAPL"}
    /\ sv_out.raised_at = 2

====
